---- MODULE Spec2Model ----
(***************************************************************************)
(* A model of the falling-block game core: the 7-bag piece sequencer with  *)
(* hold (core/pieceQueue.ts), the SRS rotation system (core/srs.ts), the   *)
(* board engine (core/gravity.ts) and the game hook that drives them.      *)
(***************************************************************************)
EXTENDS Integers, Sequences, FiniteSets, TLC

VARIABLES
    qs,        \* sequencer: the PieceQueueState {rng, queue, hold, canHold}
    current,   \* sequencer: the current piece kind held by the caller
    drawn,     \* sequencer: every piece that has left the queue, in order
    preview,   \* sequencer: nextPreviewCount of this run
    seqSeed,   \* sequencer: the seed this run was created from
    seqOp,     \* sequencer: the last operation applied
    seqPre,    \* sequencer: state and current piece before the last operation
    srsField,  \* rotation: the field the rotation is tried on
    srsPiece,  \* rotation: the piece pose {type, rotation, x, y} before rotating
    srsDir,    \* rotation: the direction asked for
    srsRes,    \* rotation: the SrsRotationResult, once trySrsRotate has run
    kickQ,     \* rotation: a kick-table lookup and the offsets it returned
    clrField,  \* line clear: the field given to clearFullLines
    clrRes,    \* line clear: the LineClearResult, once clearFullLines has run
    game,            \* game: the hook's GameState
    inputRef,        \* game: inputRef.current, the keys held down
    showKeyConfig,   \* game: the key-configuration dialog is open
    aiComputing,     \* game: aiComputingRef.current
    pendingRequest,  \* worker interface: the search awaiting a reply, with its caller
    workerInbox,     \* worker: requests posted and not yet searched
    workerOutbox,    \* worker: replies posted and not yet handled
    gameEvent,       \* game: what the last event did
    holdsSinceSpawn, \* game: HOLD events that changed the state since the last draw
    gameEvents,      \* game: key, frame and restart events so far
    steers,          \* game: of these, the events other than HOLD, HARD_DROP, restart
    pcField,   \* piece: the field given to hardDrop and detectTSpin
    pcPiece,   \* piece: the piece given to them
    pcRes,     \* piece: the call made and what it returned
    kpi,       \* score: the KpiState
    kpiPre,    \* score: the KpiState before the last applyLineClear
    kpiLog,    \* score: the events applied so far, each with the score it added
    aiIn,        \* search: the AiGameState given to searchBestMoveOneStep
    aiPhase,     \* search: where the call stands
    aiActions,   \* search: the actions enumerateActionsForState has collected
    aiOut,       \* search: the AiResponse, once the call has returned
    search,      \* search: the locals of the plies below the root
    enStart,     \* enumerator: the start piece of the call under way
    enQueue,     \* enumerator: the work queue
    enVisited,   \* enumerator: the visited map, node key to soft-drop steps
    enResults,   \* enumerator: the placements collected
    enRequeued,  \* enumerator: visited nodes that were enqueued again in this call
    mem,         \* objects: the heap of the search's objects and its nodes
    lockMark     \* lock: the game and the held keys when the piece first landed

seqVars == <<qs, current, drawn, preview, seqSeed, seqOp, seqPre>>

srsVars == <<srsField, srsPiece, srsDir, srsRes, kickQ>>

clrVars == <<clrField, clrRes>>

gameVars ==
    <<game, inputRef, showKeyConfig, aiComputing, pendingRequest, workerInbox,
      workerOutbox, gameEvent, holdsSinceSpawn, gameEvents, steers>>

pcVars == <<pcField, pcPiece, pcRes>>

kpiVars == <<kpi, kpiPre, kpiLog>>

enVars == <<enStart, enQueue, enVisited, enResults, enRequeued>>

aiVars == <<aiIn, aiPhase, aiActions, aiOut, search, enVars>>

memVars == <<mem>>

lockVars == <<lockMark>>

\* The variables of the machines that call one function of the core or the AI
unitVars == <<pcVars, kpiVars, aiVars, memVars, lockVars>>

\* The variables that no machine of a function call touches
coreVars == <<seqVars, srsVars, clrVars, gameVars, memVars, lockVars>>

vars == <<seqVars, srsVars, clrVars, gameVars, unitVars>>

(***************************************************************************)
(* Bounds of the model.                                                    *)
(***************************************************************************)
MaxSeed == 2        \* seeds 0..MaxSeed are tried besides the suite's seeds
MaxPreview == 8     \* nextPreviewCount ranges over 0..MaxPreview
MaxDraws == 22      \* pieces that may leave the queue in one run
MaxGameEvents == 4  \* key, frame and restart events of one game run
MaxSteers == 2      \* of these, the events other than HOLD, HARD_DROP and a restart
MaxClearRows == 4   \* bottom rows of the field that a line-clear input may fill
MaxBlocked == 2     \* occupied cells placed around a piece before it rotates
MaxKpiEvents == 4   \* applyLineClear calls of one run
MaxPcBlocks == 4    \* occupied cells placed around a piece before a drop or a T-spin test

(***************************************************************************)
(* 32-bit arithmetic.  A 32-bit word is a record [hi, lo] of two 16-bit    *)
(* halves, so that no intermediate value leaves the checker's integers.    *)
(***************************************************************************)
Two16 == 65536

\* a ^ b on 2, 4, 8 and 16 bits, each from the two halves of its operands
Xor2(a, b) == ((a + b) % 2) + (2 * (((a \div 2) + (b \div 2)) % 2))

Xor4(a, b) == Xor2(a % 4, b % 4) + (4 * Xor2(a \div 4, b \div 4))

Xor8(a, b) == Xor4(a % 16, b % 16) + (16 * Xor4(a \div 16, b \div 16))

Xor16(a, b) == Xor8(a % 256, b % 256) + (256 * Xor8(a \div 256, b \div 256))

Xor32(a, b) == [hi |-> Xor16(a.hi, b.hi), lo |-> Xor16(a.lo, b.lo)]

\* x << k and x >>> k on 32 bits, for 0 < k < 16 and for k = 17
Shl32(x, k) ==
    LET p == 2 ^ k
        q == 2 ^ (16 - k)
    IN  [hi |-> ((x.hi % q) * p) + (x.lo \div q), lo |-> (x.lo % q) * p]

Shr17(x) == [hi |-> 0, lo |-> x.hi \div 2]

\* ToInt32 followed by >>> 0: the seed as an unsigned 32-bit word
ToUint32(v) == [hi |-> (v \div Two16) % Two16, lo |-> v % Two16]

DEFAULT_SEED_WORD == [hi |-> 4660, lo |-> 22136]   \* 0x12345678

\* A faulty createRng that keeps the seed 0, the fixed point of xorshift
createRngRaw(seed) == ToUint32(seed)

createRng(seed) ==
    LET v == ToUint32(seed)
    IN  IF v.hi = 0 /\ v.lo = 0 THEN DEFAULT_SEED_WORD ELSE v

\* xorshift32; the state doubles as the numerator of value01 = x / 2^32
XorShl(x, k) == Xor32(x, Shl32(x, k))      \* x ^= x << k

XorShr17(x) == Xor32(x, Shr17(x))          \* x ^= x >>> 17

nextRandom(rng) == XorShl(XorShr17(XorShl(rng, 13)), 5)

\* Math.floor(value01 * m) for value01 = x / 2^32 and a small integer m
FloorScaled(x, m) == ((x.hi * m) + ((x.lo * m) \div Two16)) \div Two16

(***************************************************************************)
(* The 7-bag and the queue.                                                *)
(***************************************************************************)
ALL_PIECES == <<"I", "O", "T", "S", "Z", "J", "L">>

PieceKinds == {ALL_PIECES[i] : i \in 1..Len(ALL_PIECES)}

NoPiece == "null"

\* A faulty exchange that overwrites bag[i] and loses its old value
SwapAtLossy(bag, i, j) ==
    [k \in 1..Len(bag) |-> IF k = i + 1 THEN bag[j + 1] ELSE bag[k]]

\* bag[i] <-> bag[j] for 0-based indices i, j (the tmp exchange of generateBag)
SwapAt(bag, i, j) ==
    [k \in 1..Len(bag) |->
        IF k = i + 1 THEN bag[j + 1] ELSE IF k = j + 1 THEN bag[i + 1] ELSE bag[k]]

\* The loop variables of generateBag after one pass of the body at index
\* st.i, the RNG already advanced to r2
ShuffleStep(st, r2) ==
    [i |-> st.i - 1, rng |-> r2, bag |-> SwapAt(st.bag, st.i, FloorScaled(r2, st.i + 1))]

\* The Fisher-Yates loop of generateBag from index st.i down to 1
RECURSIVE ShuffleFrom(_)
ShuffleFrom(st) ==
    IF st.i > 0
    THEN ShuffleFrom(ShuffleStep(st, nextRandom(st.rng)))
    ELSE [rng |-> st.rng, bag |-> st.bag]

generateBag(rng) ==
    ShuffleFrom([i |-> Len(ALL_PIECES) - 1, rng |-> rng, bag |-> ALL_PIECES])

\* queue = queue.concat(bag), with the RNG advanced past the bag g
ConcatBag(state, g) ==
    [state EXCEPT !.rng = g.rng, !.queue = state.queue \o g.bag]

\* Faulty replenishment: tops the queue up to minLength with part of a bag
ConcatPart(state, g, need) ==
    [state EXCEPT !.rng = g.rng,
                  !.queue = state.queue \o SubSeq(g.bag, 1, IF need < 7 THEN need ELSE 7)]

RECURSIVE ensureQueuePartial(_, _)
ensureQueuePartial(state, minLength) ==
    IF Len(state.queue) < minLength
    THEN ensureQueuePartial(
             ConcatPart(state, generateBag(state.rng), minLength - Len(state.queue)),
             minLength)
    ELSE state

\* Faulty replenishment: refills only once the queue has run empty
ensureQueueWhenEmpty(state, minLength) ==
    IF Len(state.queue) = 0 /\ minLength > 0
    THEN ConcatBag(state, generateBag(state.rng))
    ELSE state

RECURSIVE ensureQueue(_, _)
ensureQueue(state, minLength) ==
    IF Len(state.queue) < minLength
    THEN ensureQueue(ConcatBag(state, generateBag(state.rng)), minLength)
    ELSE state

\* The safety refill of spawnNextPiece for a queue that is still empty
SpawnRefill(s) == IF Len(s.queue) = 0 THEN ensureQueue(s, 1) ELSE s

\* const [current, ...rest] = s.queue; canHold = true; top up to the preview
SpawnTake(s, nextPreviewCount) ==
    [state |-> ensureQueue([s EXCEPT !.queue = Tail(s.queue), !.canHold = TRUE],
                           nextPreviewCount),
     current |-> Head(s.queue)]

spawnNextPiece(state, nextPreviewCount) ==
    SpawnTake(SpawnRefill(ensureQueue(state, nextPreviewCount + 1)), nextPreviewCount)

createInitialPieceQueue(seed, nextPreviewCount) ==
    spawnNextPiece(
        ensureQueue([rng |-> createRng(seed), queue |-> <<>>,
                     hold |-> NoPiece, canHold |-> TRUE],
                    nextPreviewCount + 1),
        nextPreviewCount)

\* The result of a hold into the empty slot, r being the draw's result
HoldDrawn(r, canHoldAfter) ==
    [state |-> [r.state EXCEPT !.canHold = canHoldAfter], current |-> r.current]

HoldSwapped(state, cur) ==
    [state |-> [state EXCEPT !.hold = cur, !.canHold = FALSE], current |-> state.hold]

\* Faulty hold: keeps the canHold = TRUE that the draw has set
holdKeepsCanHold(state, cur, nextPreviewCount) ==
    IF ~state.canHold
    THEN [state |-> state, current |-> cur]
    ELSE IF state.hold = NoPiece
    THEN HoldDrawn(spawnNextPiece([state EXCEPT !.hold = cur], nextPreviewCount), TRUE)
    ELSE HoldSwapped(state, cur)

\* Faulty hold: the swap also takes the front of the queue away
holdSwapDraws(state, cur, nextPreviewCount) ==
    IF ~state.canHold
    THEN [state |-> state, current |-> cur]
    ELSE IF state.hold = NoPiece
    THEN HoldDrawn(spawnNextPiece([state EXCEPT !.hold = cur], nextPreviewCount), FALSE)
    ELSE HoldSwapped([state EXCEPT !.queue = Tail(state.queue)], cur)

\* Faulty hold: the hold into the empty slot draws two pieces
holdDrawsTwice(state, cur, nextPreviewCount) ==
    IF ~state.canHold
    THEN [state |-> state, current |-> cur]
    ELSE IF state.hold = NoPiece
    THEN HoldDrawn(spawnNextPiece(spawnNextPiece([state EXCEPT !.hold = cur],
                                                 nextPreviewCount).state,
                                  nextPreviewCount), FALSE)
    ELSE HoldSwapped(state, cur)

\* Faulty hold: the canHold guard is missing
holdUnguarded(state, cur, nextPreviewCount) ==
    IF state.hold = NoPiece
    THEN HoldDrawn(spawnNextPiece([state EXCEPT !.hold = cur], nextPreviewCount), FALSE)
    ELSE HoldSwapped(state, cur)

holdCurrentPiece(state, cur, nextPreviewCount) ==
    IF ~state.canHold
    THEN [state |-> state, current |-> cur]
    ELSE IF state.hold = NoPiece
    THEN HoldDrawn(spawnNextPiece([state EXCEPT !.hold = cur], nextPreviewCount), FALSE)
    ELSE HoldSwapped(state, cur)

(***************************************************************************)
(* The rotation system (core/srs.ts).  y grows downward.                   *)
(***************************************************************************)
Rotations == 0..3

Directions == {"cw", "ccw"}

\* ((current + delta) & 3)
rotateRotationIndex(cur, direction) ==
    (cur + (IF direction = "cw" THEN 1 ELSE -1)) % 4

EMPTY_OFFSETS == <<>>

JLSTZ_KICK_TABLE(from, to) ==
    CASE from = 0 /\ to = 1 ->
        <<[x |-> 0, y |-> 0], [x |-> -1, y |-> 0], [x |-> -1, y |-> -1],
          [x |-> 0, y |-> 2], [x |-> -1, y |-> 2]>>
      [] from = 1 /\ to = 0 ->
        <<[x |-> 0, y |-> 0], [x |-> 1, y |-> 0], [x |-> 1, y |-> 1],
          [x |-> 0, y |-> -2], [x |-> 1, y |-> -2]>>
      [] from = 1 /\ to = 2 ->
        <<[x |-> 0, y |-> 0], [x |-> 1, y |-> 0], [x |-> 1, y |-> 1],
          [x |-> 0, y |-> -2], [x |-> 1, y |-> -2]>>
      [] from = 2 /\ to = 1 ->
        <<[x |-> 0, y |-> 0], [x |-> -1, y |-> 0], [x |-> -1, y |-> -1],
          [x |-> 0, y |-> 2], [x |-> -1, y |-> 2]>>
      [] from = 2 /\ to = 3 ->
        <<[x |-> 0, y |-> 0], [x |-> 1, y |-> 0], [x |-> 1, y |-> -1],
          [x |-> 0, y |-> 2], [x |-> 1, y |-> 2]>>
      [] from = 3 /\ to = 2 ->
        <<[x |-> 0, y |-> 0], [x |-> -1, y |-> 0], [x |-> -1, y |-> 1],
          [x |-> 0, y |-> -2], [x |-> -1, y |-> -2]>>
      [] from = 3 /\ to = 0 ->
        <<[x |-> 0, y |-> 0], [x |-> -1, y |-> 0], [x |-> -1, y |-> 1],
          [x |-> 0, y |-> -2], [x |-> -1, y |-> -2]>>
      [] from = 0 /\ to = 3 ->
        <<[x |-> 0, y |-> 0], [x |-> 1, y |-> 0], [x |-> 1, y |-> -1],
          [x |-> 0, y |-> 2], [x |-> 1, y |-> 2]>>
      [] OTHER -> EMPTY_OFFSETS

I_KICK_TABLE(from, to) ==
    CASE from = 0 /\ to = 1 ->
        <<[x |-> 0, y |-> 0], [x |-> -2, y |-> 0], [x |-> 1, y |-> 0],
          [x |-> -2, y |-> 1], [x |-> 1, y |-> -2]>>
      [] from = 1 /\ to = 0 ->
        <<[x |-> 0, y |-> 0], [x |-> 2, y |-> 0], [x |-> -1, y |-> 0],
          [x |-> 2, y |-> -1], [x |-> -1, y |-> 2]>>
      [] from = 1 /\ to = 2 ->
        <<[x |-> 0, y |-> 0], [x |-> -1, y |-> 0], [x |-> 2, y |-> 0],
          [x |-> -1, y |-> -2], [x |-> 2, y |-> 1]>>
      [] from = 2 /\ to = 1 ->
        <<[x |-> 0, y |-> 0], [x |-> 1, y |-> 0], [x |-> -2, y |-> 0],
          [x |-> 1, y |-> 2], [x |-> -2, y |-> -1]>>
      [] from = 2 /\ to = 3 ->
        <<[x |-> 0, y |-> 0], [x |-> 2, y |-> 0], [x |-> -1, y |-> 0],
          [x |-> 2, y |-> -1], [x |-> -1, y |-> 2]>>
      [] from = 3 /\ to = 2 ->
        <<[x |-> 0, y |-> 0], [x |-> -2, y |-> 0], [x |-> 1, y |-> 0],
          [x |-> -2, y |-> 1], [x |-> 1, y |-> -2]>>
      [] from = 3 /\ to = 0 ->
        <<[x |-> 0, y |-> 0], [x |-> 1, y |-> 0], [x |-> -2, y |-> 0],
          [x |-> 1, y |-> 2], [x |-> -2, y |-> -1]>>
      [] from = 0 /\ to = 3 ->
        <<[x |-> 0, y |-> 0], [x |-> -1, y |-> 0], [x |-> 2, y |-> 0],
          [x |-> -1, y |-> -2], [x |-> 2, y |-> 1]>>
      [] OTHER -> EMPTY_OFFSETS

ZERO_OFFSET == [x |-> 0, y |-> 0]

O_KICK_TABLE(from, to) ==
    IF <<from, to>> \in {<<0, 1>>, <<1, 2>>, <<2, 3>>, <<3, 0>>,
                         <<1, 0>>, <<2, 1>>, <<3, 2>>, <<0, 3>>}
    THEN <<ZERO_OFFSET>>
    ELSE EMPTY_OFFSETS

\* Faulty lookup: the I piece is served from the shared table
getKickOffsetsShared(type, from, to) ==
    IF type = "O" THEN O_KICK_TABLE(from, to) ELSE JLSTZ_KICK_TABLE(from, to)

getKickOffsets(type, from, to) ==
    IF type = "I" THEN I_KICK_TABLE(from, to)
    ELSE IF type = "O" THEN O_KICK_TABLE(from, to)
    ELSE JLSTZ_KICK_TABLE(from, to)

\* The guideline tables as the source documents them (y grows upward)
GUIDELINE_JLSTZ(from, to) ==
    CASE from = 0 /\ to = 1 ->
        <<[x |-> 0, y |-> 0], [x |-> -1, y |-> 0], [x |-> -1, y |-> 1],
          [x |-> 0, y |-> -2], [x |-> -1, y |-> -2]>>
      [] from = 1 /\ to = 0 ->
        <<[x |-> 0, y |-> 0], [x |-> 1, y |-> 0], [x |-> 1, y |-> -1],
          [x |-> 0, y |-> 2], [x |-> 1, y |-> 2]>>
      [] from = 1 /\ to = 2 ->
        <<[x |-> 0, y |-> 0], [x |-> 1, y |-> 0], [x |-> 1, y |-> -1],
          [x |-> 0, y |-> 2], [x |-> 1, y |-> 2]>>
      [] from = 2 /\ to = 1 ->
        <<[x |-> 0, y |-> 0], [x |-> -1, y |-> 0], [x |-> -1, y |-> 1],
          [x |-> 0, y |-> -2], [x |-> -1, y |-> -2]>>
      [] from = 2 /\ to = 3 ->
        <<[x |-> 0, y |-> 0], [x |-> 1, y |-> 0], [x |-> 1, y |-> 1],
          [x |-> 0, y |-> -2], [x |-> 1, y |-> -2]>>
      [] from = 3 /\ to = 2 ->
        <<[x |-> 0, y |-> 0], [x |-> -1, y |-> 0], [x |-> -1, y |-> -1],
          [x |-> 0, y |-> 2], [x |-> -1, y |-> 2]>>
      [] from = 3 /\ to = 0 ->
        <<[x |-> 0, y |-> 0], [x |-> -1, y |-> 0], [x |-> -1, y |-> -1],
          [x |-> 0, y |-> 2], [x |-> -1, y |-> 2]>>
      [] from = 0 /\ to = 3 ->
        <<[x |-> 0, y |-> 0], [x |-> 1, y |-> 0], [x |-> 1, y |-> 1],
          [x |-> 0, y |-> -2], [x |-> 1, y |-> -2]>>
      [] OTHER -> EMPTY_OFFSETS

GUIDELINE_I(from, to) ==
    CASE from = 0 /\ to = 1 ->
        <<[x |-> 0, y |-> 0], [x |-> -2, y |-> 0], [x |-> 1, y |-> 0],
          [x |-> -2, y |-> -1], [x |-> 1, y |-> 2]>>
      [] from = 1 /\ to = 0 ->
        <<[x |-> 0, y |-> 0], [x |-> 2, y |-> 0], [x |-> -1, y |-> 0],
          [x |-> 2, y |-> 1], [x |-> -1, y |-> -2]>>
      [] from = 1 /\ to = 2 ->
        <<[x |-> 0, y |-> 0], [x |-> -1, y |-> 0], [x |-> 2, y |-> 0],
          [x |-> -1, y |-> 2], [x |-> 2, y |-> -1]>>
      [] from = 2 /\ to = 1 ->
        <<[x |-> 0, y |-> 0], [x |-> 1, y |-> 0], [x |-> -2, y |-> 0],
          [x |-> 1, y |-> -2], [x |-> -2, y |-> 1]>>
      [] from = 2 /\ to = 3 ->
        <<[x |-> 0, y |-> 0], [x |-> 2, y |-> 0], [x |-> -1, y |-> 0],
          [x |-> 2, y |-> 1], [x |-> -1, y |-> -2]>>
      [] from = 3 /\ to = 2 ->
        <<[x |-> 0, y |-> 0], [x |-> -2, y |-> 0], [x |-> 1, y |-> 0],
          [x |-> -2, y |-> -1], [x |-> 1, y |-> 2]>>
      [] from = 3 /\ to = 0 ->
        <<[x |-> 0, y |-> 0], [x |-> 1, y |-> 0], [x |-> -2, y |-> 0],
          [x |-> 1, y |-> -2], [x |-> -2, y |-> 1]>>
      [] from = 0 /\ to = 3 ->
        <<[x |-> 0, y |-> 0], [x |-> -1, y |-> 0], [x |-> 2, y |-> 0],
          [x |-> -1, y |-> 2], [x |-> 2, y |-> -1]>>
      [] OTHER -> EMPTY_OFFSETS

\* The cells of each piece and rotation inside its 4x4 box
SHAPES(type, rotation) ==
    CASE type = "I" /\ rotation = 0 ->
        <<[x |-> 0, y |-> 1], [x |-> 1, y |-> 1], [x |-> 2, y |-> 1],
          [x |-> 3, y |-> 1]>>
      [] type = "I" /\ rotation = 1 ->
          <<[x |-> 2, y |-> 0], [x |-> 2, y |-> 1], [x |-> 2, y |-> 2],
            [x |-> 2, y |-> 3]>>
      [] type = "I" /\ rotation = 2 ->
          <<[x |-> 0, y |-> 2], [x |-> 1, y |-> 2], [x |-> 2, y |-> 2],
            [x |-> 3, y |-> 2]>>
      [] type = "I" /\ rotation = 3 ->
          <<[x |-> 1, y |-> 0], [x |-> 1, y |-> 1], [x |-> 1, y |-> 2],
            [x |-> 1, y |-> 3]>>
      [] type = "O" /\ rotation = 0 ->
          <<[x |-> 1, y |-> 0], [x |-> 2, y |-> 0], [x |-> 1, y |-> 1],
            [x |-> 2, y |-> 1]>>
      [] type = "O" /\ rotation = 1 ->
          <<[x |-> 1, y |-> 0], [x |-> 2, y |-> 0], [x |-> 1, y |-> 1],
            [x |-> 2, y |-> 1]>>
      [] type = "O" /\ rotation = 2 ->
          <<[x |-> 1, y |-> 0], [x |-> 2, y |-> 0], [x |-> 1, y |-> 1],
            [x |-> 2, y |-> 1]>>
      [] type = "O" /\ rotation = 3 ->
          <<[x |-> 1, y |-> 0], [x |-> 2, y |-> 0], [x |-> 1, y |-> 1],
            [x |-> 2, y |-> 1]>>
      [] type = "T" /\ rotation = 0 ->
          <<[x |-> 1, y |-> 0], [x |-> 0, y |-> 1], [x |-> 1, y |-> 1],
            [x |-> 2, y |-> 1]>>
      [] type = "T" /\ rotation = 1 ->
          <<[x |-> 1, y |-> 0], [x |-> 1, y |-> 1], [x |-> 2, y |-> 1],
            [x |-> 1, y |-> 2]>>
      [] type = "T" /\ rotation = 2 ->
          <<[x |-> 0, y |-> 1], [x |-> 1, y |-> 1], [x |-> 2, y |-> 1],
            [x |-> 1, y |-> 2]>>
      [] type = "T" /\ rotation = 3 ->
          <<[x |-> 1, y |-> 0], [x |-> 0, y |-> 1], [x |-> 1, y |-> 1],
            [x |-> 1, y |-> 2]>>
      [] type = "S" /\ rotation = 0 ->
          <<[x |-> 1, y |-> 0], [x |-> 2, y |-> 0], [x |-> 0, y |-> 1],
            [x |-> 1, y |-> 1]>>
      [] type = "S" /\ rotation = 1 ->
          <<[x |-> 1, y |-> 0], [x |-> 1, y |-> 1], [x |-> 2, y |-> 1],
            [x |-> 2, y |-> 2]>>
      [] type = "S" /\ rotation = 2 ->
          <<[x |-> 1, y |-> 1], [x |-> 2, y |-> 1], [x |-> 0, y |-> 2],
            [x |-> 1, y |-> 2]>>
      [] type = "S" /\ rotation = 3 ->
          <<[x |-> 0, y |-> 0], [x |-> 0, y |-> 1], [x |-> 1, y |-> 1],
            [x |-> 1, y |-> 2]>>
      [] type = "Z" /\ rotation = 0 ->
          <<[x |-> 0, y |-> 0], [x |-> 1, y |-> 0], [x |-> 1, y |-> 1],
            [x |-> 2, y |-> 1]>>
      [] type = "Z" /\ rotation = 1 ->
          <<[x |-> 2, y |-> 0], [x |-> 1, y |-> 1], [x |-> 2, y |-> 1],
            [x |-> 1, y |-> 2]>>
      [] type = "Z" /\ rotation = 2 ->
          <<[x |-> 0, y |-> 1], [x |-> 1, y |-> 1], [x |-> 1, y |-> 2],
            [x |-> 2, y |-> 2]>>
      [] type = "Z" /\ rotation = 3 ->
          <<[x |-> 1, y |-> 0], [x |-> 0, y |-> 1], [x |-> 1, y |-> 1],
            [x |-> 0, y |-> 2]>>
      [] type = "J" /\ rotation = 0 ->
          <<[x |-> 0, y |-> 0], [x |-> 0, y |-> 1], [x |-> 1, y |-> 1],
            [x |-> 2, y |-> 1]>>
      [] type = "J" /\ rotation = 1 ->
          <<[x |-> 1, y |-> 0], [x |-> 2, y |-> 0], [x |-> 1, y |-> 1],
            [x |-> 1, y |-> 2]>>
      [] type = "J" /\ rotation = 2 ->
          <<[x |-> 0, y |-> 1], [x |-> 1, y |-> 1], [x |-> 2, y |-> 1],
            [x |-> 2, y |-> 2]>>
      [] type = "J" /\ rotation = 3 ->
          <<[x |-> 1, y |-> 0], [x |-> 1, y |-> 1], [x |-> 0, y |-> 2],
            [x |-> 1, y |-> 2]>>
      [] type = "L" /\ rotation = 0 ->
          <<[x |-> 2, y |-> 0], [x |-> 0, y |-> 1], [x |-> 1, y |-> 1],
            [x |-> 2, y |-> 1]>>
      [] type = "L" /\ rotation = 1 ->
          <<[x |-> 1, y |-> 0], [x |-> 1, y |-> 1], [x |-> 1, y |-> 2],
            [x |-> 2, y |-> 2]>>
      [] type = "L" /\ rotation = 2 ->
          <<[x |-> 0, y |-> 1], [x |-> 1, y |-> 1], [x |-> 2, y |-> 1],
            [x |-> 0, y |-> 2]>>
      [] type = "L" /\ rotation = 3 ->
          <<[x |-> 0, y |-> 0], [x |-> 1, y |-> 0], [x |-> 1, y |-> 1],
            [x |-> 1, y |-> 2]>>


getPieceCells(type, rotation, originX, originY) ==
    [i \in 1..4 |-> [x |-> originX + SHAPES(type, rotation)[i].x,
                     y |-> originY + SHAPES(type, rotation)[i].y]]

(***************************************************************************)
(* The field (core/gravity.ts): FIELD_HEIGHT rows of FIELD_WIDTH cells,    *)
(* 0 = empty, 1 = block.  Row y of the source is field[y + 1] here, and    *)
(* column x is row[x + 1].                                                 *)
(***************************************************************************)
FIELD_WIDTH == 10

FIELD_HEIGHT == 40

EmptyRow == [x \in 1..FIELD_WIDTH |-> 0]

createEmptyField == [y \in 1..FIELD_HEIGHT |-> EmptyRow]

isInsideField(x, y) == x >= 0 /\ x < FIELD_WIDTH /\ y >= 0 /\ y < FIELD_HEIGHT

\* Cells outside the field count as not empty
isCellEmpty(field, x, y) == isInsideField(x, y) /\ field[y + 1][x + 1] = 0

\* field[y][x] = 1
SetCell(field, x, y) == [field EXCEPT ![y + 1][x + 1] = 1]

(***************************************************************************)
(* clearFullLines (core/gravity.ts).                                       *)
(***************************************************************************)
\* The scan of one row: isFull stays true unless some row[x] === 0
IsFullRow(row) == ~(\E x \in 1..FIELD_WIDTH : row[x] = 0)

\* The source's row indices 0 .. FIELD_HEIGHT - 1, in the order of the scan
RowIndices == [i \in 1..FIELD_HEIGHT |-> i - 1]

\* for (let y = 0; y < FIELD_HEIGHT; y++): the rows that are not full are
\* pushed to newField, the indices of the full rows to clearedLines
ScanRows(field) ==
    [field |-> SelectSeq(field, LAMBDA row : ~IsFullRow(row)),
     clearedLines |-> SelectSeq(RowIndices, LAMBDA y : IsFullRow(field[y + 1]))]

\* newField.unshift(emptyRow), n times
UnshiftEmpty(newField, n) == [i \in 1..n |-> EmptyRow] \o newField

\* Faulty refill: the empty rows are pushed below the kept rows
PushEmpty(newField, n) == newField \o [i \in 1..n |-> EmptyRow]

\* while (newField.length < FIELD_HEIGHT) unshift; then splice the excess
FitHeight(newField) ==
    IF Len(newField) < FIELD_HEIGHT
    THEN UnshiftEmpty(newField, FIELD_HEIGHT - Len(newField))
    ELSE SubSeq(newField, Len(newField) - FIELD_HEIGHT + 1, Len(newField))

ClearedResult(scan) ==
    [field |-> FitHeight(UnshiftEmpty(scan.field, Len(scan.clearedLines))),
     clearedLines |-> scan.clearedLines]

ClearedResultPushed(scan) ==
    [field |-> FitHeight(PushEmpty(scan.field, Len(scan.clearedLines))),
     clearedLines |-> scan.clearedLines]

clearFullLinesPushed(field) == ClearedResultPushed(ScanRows(field))

clearFullLines(field) == ClearedResult(ScanRows(field))

(***************************************************************************)
(* trySrsRotate.  The isCellFree callback is a closure: either the         *)
(* always-free one of the unit test, or (x, y) => isCellEmpty(field, x, y) *)
(* as tryRotate passes it.                                                 *)
(***************************************************************************)
OpenSpace == [kind |-> "open"]

FieldFree(field) == [kind |-> "field", field |-> field]

CellFree(env, x, y) == env.kind = "open" \/ isCellEmpty(env.field, x, y)

\* The inner loop: some cell of the candidate is not free
Blocked(cells, env) == \E i \in 1..4 : ~CellFree(env, cells[i].x, cells[i].y)

RotationFailed(currentRotation, originX, originY) ==
    [success |-> FALSE, rotation |-> currentRotation,
     originX |-> originX, originY |-> originY]

RotationDone(nextRotation, originX, originY, kick) ==
    [success |-> TRUE, rotation |-> nextRotation,
     originX |-> originX + kick.x, originY |-> originY + kick.y, usedOffset |-> kick]

\* for (const kick of kicks), from the k-th kick on
RECURSIVE KickLoop(_, _, _, _, _, _, _, _)
KickLoop(type, currentRotation, nextRotation, originX, originY, env, kicks, k) ==
    IF k > Len(kicks)
    THEN RotationFailed(currentRotation, originX, originY)
    ELSE IF ~Blocked(getPieceCells(type, nextRotation,
                                   originX + kicks[k].x, originY + kicks[k].y), env)
    THEN RotationDone(nextRotation, originX, originY, kicks[k])
    ELSE KickLoop(type, currentRotation, nextRotation, originX, originY, env, kicks, k + 1)

\* Faulty loop: goes on after a fit and so keeps the last candidate that fits
RECURSIVE KickLoopLast(_, _, _, _, _, _, _, _)
KickLoopLast(type, currentRotation, nextRotation, originX, originY, env, kicks, k) ==
    IF k < 1
    THEN RotationFailed(currentRotation, originX, originY)
    ELSE IF ~Blocked(getPieceCells(type, nextRotation,
                                   originX + kicks[k].x, originY + kicks[k].y), env)
    THEN RotationDone(nextRotation, originX, originY, kicks[k])
    ELSE KickLoopLast(type, currentRotation, nextRotation, originX, originY, env, kicks, k - 1)

RotateLastFit(type, currentRotation, nextRotation, originX, originY, env) ==
    KickLoopLast(type, currentRotation, nextRotation, originX, originY, env,
                 getKickOffsets(type, currentRotation, nextRotation),
                 Len(getKickOffsets(type, currentRotation, nextRotation)))

RotateTo(type, currentRotation, nextRotation, originX, originY, env) ==
    KickLoop(type, currentRotation, nextRotation, originX, originY, env,
             getKickOffsets(type, currentRotation, nextRotation), 1)

trySrsRotate(type, currentRotation, direction, originX, originY, env) ==
    RotateTo(type, currentRotation, rotateRotationIndex(currentRotation, direction),
             originX, originY, env)

(***************************************************************************)
(* Placement, spawn, lock and movement (core/gravity.ts).  A piece is      *)
(* [type, rotation, x, y]; a value that may be null is <<>> or <<v>>.      *)
(***************************************************************************)
SPAWN_X == 3

SPAWN_Y == 18

Null == <<>>

Some(v) == <<v>>

PieceAt(type, rotation, x, y) == [type |-> type, rotation |-> rotation, x |-> x, y |-> y]

\* Faulty test: the loop stops one cell short
AllCellsEmptyButLast(field, cells) ==
    \A i \in 1..3 : isCellEmpty(field, cells[i].x, cells[i].y)

\* for (const c of cells) if (!isCellEmpty(field, c.x, c.y)) return false
AllCellsEmpty(field, cells) == \A i \in 1..4 : isCellEmpty(field, cells[i].x, cells[i].y)

canPlacePiece(field, piece) ==
    AllCellsEmpty(field, getPieceCells(piece.type, piece.rotation, piece.x, piece.y))

\* null when the spawn position is not free
spawnActivePiece(field, type) ==
    IF canPlacePiece(field, PieceAt(type, 0, SPAWN_X, SPAWN_Y))
    THEN Some(PieceAt(type, 0, SPAWN_X, SPAWN_Y))
    ELSE Null

\* if (isInsideField(c.x, c.y)) newField[c.y][c.x] = 1
LockCell(field, c) == IF isInsideField(c.x, c.y) THEN SetCell(field, c.x, c.y) ELSE field

LockCells(field, cells) ==
    LockCell(LockCell(LockCell(LockCell(field, cells[1]), cells[2]), cells[3]), cells[4])

\* A copy of the field with the piece's cells that lie inside it set to 1
lockPiece(field, piece) ==
    LockCells(field, getPieceCells(piece.type, piece.rotation, piece.x, piece.y))

lockPieceAndClearLines(field, piece) == clearFullLines(lockPiece(field, piece))

tryMove(field, piece, dx, dy) ==
    IF canPlacePiece(field, [piece EXCEPT !.x = piece.x + dx, !.y = piece.y + dy])
    THEN [piece EXCEPT !.x = piece.x + dx, !.y = piece.y + dy]
    ELSE piece

tryMoveLeft(field, piece) == tryMove(field, piece, -1, 0)

tryMoveRight(field, piece) == tryMove(field, piece, 1, 0)

trySoftDrop(field, piece) == tryMove(field, piece, 0, 1)

canMoveDown(field, piece) == tryMove(field, piece, 0, 1).y # piece.y

\* The piece k rows further down can be placed
CanDropTo(field, piece, k) == canPlacePiece(field, [piece EXCEPT !.y = piece.y + k])

\* while (true): one row down until tryMove returns the piece unmoved, which
\* is at the first k whose row cannot be entered; distance counts the moves
FirstBlockedDrop(field, piece) ==
    CHOOSE k \in 1..(FIELD_HEIGHT + 4) :
        /\ ~CanDropTo(field, piece, k)
        /\ \A j \in 1..(k - 1) : CanDropTo(field, piece, j)

DropLoop(piece, distance) ==
    [piece |-> [piece EXCEPT !.y = piece.y + distance], distance |-> distance]

\* Faulty drop: the distance also counts the move that failed
hardDropCountsLast(field, piece) ==
    [piece |-> DropLoop(piece, FirstBlockedDrop(field, piece) - 1).piece,
     distance |-> FirstBlockedDrop(field, piece)]

hardDrop(field, piece) == DropLoop(piece, FirstBlockedDrop(field, piece) - 1)

RotatedPiece(piece, result) ==
    IF ~result.success
    THEN piece
    ELSE [piece EXCEPT !.rotation = result.rotation,
                       !.x = result.originX, !.y = result.originY]

tryRotate(field, piece, direction) ==
    RotatedPiece(piece, trySrsRotate(piece.type, piece.rotation, direction,
                                     piece.x, piece.y, FieldFree(field)))

gravityTick(field, piece) ==
    IF trySoftDrop(field, piece).y = piece.y
    THEN [piece |-> piece, landed |-> TRUE]
    ELSE [piece |-> trySoftDrop(field, piece), landed |-> FALSE]

(***************************************************************************)
(* T-spin detection (core/tspin.ts).                                       *)
(***************************************************************************)
mapLinesToKind(lines) ==
    CASE lines = 1 -> "single"
      [] lines = 2 -> "double"
      [] lines = 3 -> "triple"
      [] lines = 4 -> "tetris"
      [] OTHER -> "none"

\* Faulty corners: the corners of the frame moved one column to the right
TCornersShifted(piece) ==
    <<[x |-> piece.x + 1, y |-> piece.y], [x |-> piece.x + 3, y |-> piece.y],
      [x |-> piece.x + 1, y |-> piece.y + 2], [x |-> piece.x + 3, y |-> piece.y + 2]>>

\* The four diagonal neighbours of the T's centre (piece.x + 1, piece.y + 1)
TCorners(piece) ==
    <<[x |-> piece.x, y |-> piece.y], [x |-> piece.x + 2, y |-> piece.y],
      [x |-> piece.x, y |-> piece.y + 2], [x |-> piece.x + 2, y |-> piece.y + 2]>>

\* Faulty count: a corner outside the field is not counted
occupiedCornersInside(field, piece) ==
    Cardinality({i \in 1..4 : /\ isInsideField(TCorners(piece)[i].x, TCorners(piece)[i].y)
                              /\ ~isCellEmpty(field, TCorners(piece)[i].x, TCorners(piece)[i].y)})

occupiedCorners(field, piece) ==
    Cardinality({i \in 1..4 : ~isCellEmpty(field, TCorners(piece)[i].x, TCorners(piece)[i].y)})

TSpinKind(linesCleared) ==
    CASE linesCleared = 1 -> "tspinSingle"
      [] linesCleared = 2 -> "tspinDouble"
      [] linesCleared = 3 -> "tspinTriple"
      [] OTHER -> mapLinesToKind(linesCleared)

detectTSpin(field, piece, linesCleared, lastMoveWasRotate) ==
    IF piece.type # "T" \/ linesCleared <= 0 \/ ~lastMoveWasRotate
    THEN [category |-> "none", lineClearKind |-> mapLinesToKind(linesCleared)]
    ELSE IF occupiedCorners(field, piece) < 3
    THEN [category |-> "none", lineClearKind |-> mapLinesToKind(linesCleared)]
    ELSE [category |-> "tspin", lineClearKind |-> TSpinKind(linesCleared)]

(***************************************************************************)
(* The fire-power score (core/kpi.ts).                                     *)
(***************************************************************************)
BASE_SCORES(kind) ==
    CASE kind = "none" -> 0
      [] kind = "single" -> 0
      [] kind = "double" -> 1
      [] kind = "triple" -> 2
      [] kind = "tetris" -> 4
      [] kind = "tspinMiniSingle" -> 1
      [] kind = "tspinSingle" -> 2
      [] kind = "tspinDouble" -> 4
      [] kind = "tspinTriple" -> 6
      [] OTHER -> 0

B2B_ELIGIBLE_KINDS == {"tetris", "tspinMiniSingle", "tspinSingle", "tspinDouble", "tspinTriple"}

KPI_WINDOW_MS == 300000

createInitialKpiState ==
    [totalScore |-> 0, windowScore |-> 0, windowEvents |-> <<>>, b2bActive |-> FALSE]

isB2BEligible(kind) == kind \in B2B_ELIGIBLE_KINDS

scoreForKind(kind) == BASE_SCORES(kind)

\* Faulty filter: an entry exactly as old as the window is dropped
RECURSIVE PruneEventsStrict(_, _)
PruneEventsStrict(events, cutoff) ==
    IF Len(events) = 0 THEN <<>>
    ELSE IF Head(events).timestampMs > cutoff
    THEN <<Head(events)>> \o PruneEventsStrict(Tail(events), cutoff)
    ELSE PruneEventsStrict(Tail(events), cutoff)

\* windowEvents.filter(e => e.timestampMs >= cutoff)
RECURSIVE PruneEvents(_, _)
PruneEvents(events, cutoff) ==
    IF Len(events) = 0 THEN <<>>
    ELSE IF Head(events).timestampMs >= cutoff
    THEN <<Head(events)>> \o PruneEvents(Tail(events), cutoff)
    ELSE PruneEvents(Tail(events), cutoff)

\* events.reduce((sum, e) => sum + e.score, 0)
RECURSIVE SumScores(_)
SumScores(events) ==
    IF Len(events) = 0 THEN 0 ELSE Head(events).score + SumScores(Tail(events))

KpiB2BBonus(state, kind) == IF isB2BEligible(kind) /\ state.b2bActive THEN 1 ELSE 0

KpiPushed(events, timestampMs, score) ==
    IF score > 0 THEN Append(events, [timestampMs |-> timestampMs, score |-> score])
    ELSE events

\* Faulty scoring: the window total is kept as a running total
KpiScoredRunning(state, kind, timestampMs, score) ==
    [totalScore |-> state.totalScore + score,
     windowScore |-> state.windowScore + score,
     windowEvents |-> KpiPushed(PruneEvents(state.windowEvents,
                                            timestampMs - KPI_WINDOW_MS),
                                timestampMs, score),
     b2bActive |-> isB2BEligible(kind)]

KpiScored(state, kind, timestampMs, score) ==
    [totalScore |-> state.totalScore + score,
     windowScore |-> SumScores(KpiPushed(PruneEvents(state.windowEvents,
                                                     timestampMs - KPI_WINDOW_MS),
                                         timestampMs, score)),
     windowEvents |-> KpiPushed(PruneEvents(state.windowEvents,
                                            timestampMs - KPI_WINDOW_MS),
                                timestampMs, score),
     b2bActive |-> isB2BEligible(kind)]

\* Faulty scoring: a none event returns the state as it is, old entries too
applyLineClearNoneKeeps(state, kind, timestampMs) ==
    IF kind = "none"
    THEN state
    ELSE KpiScored(state, kind, timestampMs, scoreForKind(kind) + KpiB2BBonus(state, kind))

\* Faulty scoring: a none event ends the chain
applyLineClearNoneEnds(state, kind, timestampMs) ==
    IF kind = "none"
    THEN [totalScore |-> state.totalScore,
          windowScore |-> SumScores(PruneEvents(state.windowEvents,
                                                timestampMs - KPI_WINDOW_MS)),
          windowEvents |-> PruneEvents(state.windowEvents, timestampMs - KPI_WINDOW_MS),
          b2bActive |-> FALSE]
    ELSE KpiScored(state, kind, timestampMs, scoreForKind(kind) + KpiB2BBonus(state, kind))

applyLineClear(state, kind, timestampMs) ==
    IF kind = "none"
    THEN [totalScore |-> state.totalScore,
          windowScore |-> SumScores(PruneEvents(state.windowEvents,
                                                timestampMs - KPI_WINDOW_MS)),
          windowEvents |-> PruneEvents(state.windowEvents, timestampMs - KPI_WINDOW_MS),
          b2bActive |-> state.b2bActive]
    ELSE KpiScored(state, kind, timestampMs, scoreForKind(kind) + KpiB2BBonus(state, kind))

(***************************************************************************)
(* The placement enumerator (ai/search.ts).                                *)
(***************************************************************************)
ReachablePlacement(piece, lastMoveWasRotate, softDropSteps) ==
    [piece |-> piece, lastMoveWasRotate |-> lastMoveWasRotate,
     softDropSteps |-> softDropSteps]

\* `${type}:${rotation}:${x}:${y}:${flag}`: one string per pose and flag
hashNode(node) ==
    <<node.piece.type, node.piece.rotation, node.piece.x, node.piece.y,
      node.lastMoveWasRotate>>

\* moved.x !== piece.x || moved.y !== piece.y || moved.rotation !== piece.rotation
PoseChanged(moved, piece) ==
    moved.x # piece.x \/ moved.y # piece.y \/ moved.rotation # piece.rotation

\* neighbors.push({...}) when the move changed the pose
Neighbor(moved, piece, lastMoveWasRotate, softDropSteps) ==
    IF PoseChanged(moved, piece)
    THEN <<ReachablePlacement(moved, lastMoveWasRotate, softDropSteps)>>
    ELSE <<>>

\* Faulty neighbours: the soft-drop step is missing
NeighborsAtHeight(field, cur) ==
    Neighbor(tryMoveLeft(field, cur.piece), cur.piece, FALSE, cur.softDropSteps)
    \o Neighbor(tryMoveRight(field, cur.piece), cur.piece, FALSE, cur.softDropSteps)
    \o Neighbor(tryRotate(field, cur.piece, "cw"), cur.piece, TRUE, cur.softDropSteps)
    \o Neighbor(tryRotate(field, cur.piece, "ccw"), cur.piece, TRUE, cur.softDropSteps)

\* The neighbours of a node in the order they are pushed: left, right,
\* soft drop, rotate cw, rotate ccw
Neighbors(field, cur) ==
    Neighbor(tryMoveLeft(field, cur.piece), cur.piece, FALSE, cur.softDropSteps)
    \o Neighbor(tryMoveRight(field, cur.piece), cur.piece, FALSE, cur.softDropSteps)
    \o Neighbor(trySoftDrop(field, cur.piece), cur.piece, FALSE, cur.softDropSteps + 1)
    \o Neighbor(tryRotate(field, cur.piece, "cw"), cur.piece, TRUE, cur.softDropSteps)
    \o Neighbor(tryRotate(field, cur.piece, "ccw"), cur.piece, TRUE, cur.softDropSteps)

\* Faulty test: a node reached again at the same cost is taken as well
IsNewOrNotDearer(visited, n) ==
    \/ hashNode(n) \notin DOMAIN visited
    \/ n.softDropSteps <= visited[hashNode(n)]

\* prevSoftDrops === undefined || n.softDropSteps < prevSoftDrops
IsNewOrCheaper(visited, n) ==
    \/ hashNode(n) \notin DOMAIN visited
    \/ n.softDropSteps < visited[hashNode(n)]

\* The work list after one neighbour: visited.set(key, steps); queue.push(n)
VisitOne(acc, n) ==
    IF IsNewOrCheaper(acc.visited, n)
    THEN [queue |-> Append(acc.queue, n),
          visited |-> (hashNode(n) :> n.softDropSteps) @@ acc.visited,
          requeued |-> acc.requeued
                         + (IF hashNode(n) \in DOMAIN acc.visited THEN 1 ELSE 0)]
    ELSE acc

\* F applied to the value of v
ApplyTo(v, F(_)) == CHOOSE r \in {F(x) : x \in {v}} : TRUE

\* for (const n of neighbors) ..., from the i-th neighbour on
RECURSIVE VisitFrom(_, _, _)
VisitFrom(acc, neighbors, i) ==
    IF i > Len(neighbors) THEN acc
    ELSE ApplyTo(VisitOne(acc, neighbors[i]),
                 LAMBDA visitedOne : VisitFrom(visitedOne, neighbors, i + 1))

VisitAll(acc, neighbors) == VisitFrom(acc, neighbors, 1)

\* Faulty loop: the current node is read but left at the head of the queue
Unshifted(queue) == queue

\* queue.shift(): the queue without its head
Shifted(queue) == Tail(queue)

\* Faulty test: only a node without any neighbour is collected
CollectedLeaves(field, results, cur) ==
    IF ~canMoveDown(field, cur.piece) /\ Len(Neighbors(field, cur)) = 0
    THEN Append(results, cur) ELSE results

\* results.push(current) when the piece cannot move down
Collected(field, results, cur) ==
    IF ~canMoveDown(field, cur.piece) THEN Append(results, cur) ELSE results

\* The queue and the visited map with which enumerateReachablePlacements begins
EnumStart(start) ==
    [queue |-> <<ReachablePlacement(start, FALSE, 0)>>,
     visited |-> (hashNode(ReachablePlacement(start, FALSE, 0)) :> 0),
     requeued |-> 0,
     results |-> <<>>]

\* One iteration of while (queue.length > 0) on the locals of the call
EnumStepOn(field, s) ==
    ApplyTo(VisitAll([queue |-> Shifted(s.queue), visited |-> s.visited,
                      requeued |-> s.requeued], Neighbors(field, Head(s.queue))),
            LAMBDA acc : [queue |-> acc.queue, visited |-> acc.visited,
                          requeued |-> acc.requeued,
                          results |-> Collected(field, s.results, Head(s.queue))])

\* Iterations of the loop a call is followed for
MaxEnumSteps == 4096

\* Up to n iterations of the loop, ended by the empty queue
RECURSIVE EnumRun(_, _, _)
EnumRun(field, s, n) ==
    IF Len(s.queue) = 0 \/ n = 0 THEN s
    ELSE IF n = 1 THEN EnumStepOn(field, s)
    ELSE ApplyTo(EnumRun(field, s, n \div 2),
                 LAMBDA half : EnumRun(field, half, n - (n \div 2)))

\* enumerateReachablePlacements as a function of the field and the start piece
enumerateReachablePlacements(field, start) ==
    EnumRun(field, EnumStart(start), MaxEnumSteps).results

(***************************************************************************)
(* The one-step search (ai/search.ts), with the weights the code falls     *)
(* back to when the configuration names none.  Scores are kept in tenths,  *)
(* so that the weights -0.5, -3.0, -0.3 and 0.1 are the integers below.    *)
(***************************************************************************)
ScoreScale == 10

aggregateHeightWeight == -5

holeWeight == -30

bumpinessWeight == -3

wellWeight == 1

KPI_WEIGHT == 25

FIELD_WEIGHT == 1

Columns == 0..(FIELD_WIDTH - 1)

\* for (let y = 0; ...) if (field[y][x] !== 0) { topY = y; break; }
ColumnTop(field, x) ==
    IF \E y \in 0..(FIELD_HEIGHT - 1) : field[y + 1][x + 1] # 0
    THEN CHOOSE y \in 0..(FIELD_HEIGHT - 1) :
            /\ field[y + 1][x + 1] # 0
            /\ \A above \in 0..(y - 1) : field[above + 1][x + 1] = 0
    ELSE FIELD_HEIGHT

ColumnHeights(field) == [x \in Columns |-> FIELD_HEIGHT - ColumnTop(field, x)]

\* The cells below the top block of the column that are 0
ColumnHoles(field, x) ==
    Cardinality({y \in (ColumnTop(field, x) + 1)..(FIELD_HEIGHT - 1) :
                    field[y + 1][x + 1] = 0})

Abs(n) == IF n < 0 THEN -n ELSE n

MinOf(a, b) == IF a < b THEN a ELSE b

\* Math.min(left, right) - h when h < left && h < right.  An edge column has
\* Number.MAX_SAFE_INTEGER on its outer side, which exceeds every height, so
\* it is compared with its one neighbour.
WellDepth(heights, x) ==
    IF x = 0
    THEN (IF heights[x] < heights[x + 1] THEN heights[x + 1] - heights[x] ELSE 0)
    ELSE IF x = FIELD_WIDTH - 1
    THEN (IF heights[x] < heights[x - 1] THEN heights[x - 1] - heights[x] ELSE 0)
    ELSE IF heights[x] < heights[x - 1] /\ heights[x] < heights[x + 1]
    THEN MinOf(heights[x - 1], heights[x + 1]) - heights[x]
    ELSE 0

\* The sum of f[0] .. f[n]
RECURSIVE SumUpTo(_, _)
SumUpTo(f, n) == IF n < 0 THEN 0 ELSE f[n] + SumUpTo(f, n - 1)

FieldFeatures(field, heights) ==
    [aggregateHeight |-> SumUpTo(heights, FIELD_WIDTH - 1),
     holes |-> SumUpTo([x \in Columns |-> ColumnHoles(field, x)], FIELD_WIDTH - 1),
     bumpiness |-> SumUpTo([x \in 0..(FIELD_WIDTH - 2) |->
                               Abs(heights[x] - heights[x + 1])], FIELD_WIDTH - 2),
     wells |-> SumUpTo([x \in Columns |-> WellDepth(heights, x)], FIELD_WIDTH - 1)]

WeightedFeatures(f) ==
    (aggregateHeightWeight * f.aggregateHeight) + (holeWeight * f.holes)
    + (bumpinessWeight * f.bumpiness) + (wellWeight * f.wells)

\* The heuristic of a field, in tenths
evaluateFieldBasic(field) == WeightedFeatures(FieldFeatures(field, ColumnHeights(field)))

AiAction(p, useHold, queueStateAfterCurrent) ==
    [placement |-> p.piece, useHold |-> useHold,
     lastMoveWasRotate |-> p.lastMoveWasRotate, softDropSteps |-> p.softDropSteps,
     queueStateAfterCurrent |-> queueStateAfterCurrent]

\* for (const p of placements) actions.push({...})
ActionsOf(placements, useHold, queueStateAfterCurrent) ==
    [i \in 1..Len(placements) |-> AiAction(placements[i], useHold, queueStateAfterCurrent)]

\* if (clearedCount > 0) kpiState = applyLineClear(kpiState, {kind, timestampMs})
KpiAfterMove(state, action, lockedField, clearedCount) ==
    IF clearedCount > 0
    THEN applyLineClear(state.kpi,
                        detectTSpin(lockedField, action.placement, clearedCount,
                                    action.lastMoveWasRotate).lineClearKind,
                        state.elapsedMs)
    ELSE state.kpi

NextAiState(state, cleared, kpiState, spawnRes) ==
    [field |-> cleared.field,
     active |-> spawnActivePiece(cleared.field, spawnRes.current),
     queueState |-> spawnRes.state,
     kpi |-> kpiState,
     elapsedMs |-> state.elapsedMs,
     nextCount |-> state.nextCount,
     maxDepth |-> state.maxDepth,
     beamWidth |-> state.beamWidth,
     timeLimit |-> state.timeLimit,
     openingSoftDropWeight |-> state.openingSoftDropWeight]

\* if (cell !== null): a Cell is 0 or 1, and neither of them is null
IsNotNullCell(cell) == cell \in {0, 1}

\* countFilledCells: the cells of the field that pass the test
countFilledCells(field) ==
    Cardinality({c \in (1..FIELD_WIDTH) \X (1..FIELD_HEIGHT) :
                    IsNotNullCell(field[c[2]][c[1]])})

OPENING_BLOCK_LIMIT == 28

\* score += openingSoftDropWeight * softDropSteps * openingPhase, in tenths,
\* where openingPhase = 1 - min(filledBefore / OPENING_BLOCK_LIMIT, 1)
OpeningPenalty(weight, filledBefore, softDropSteps) ==
    IF weight # 0 /\ filledBefore < OPENING_BLOCK_LIMIT
    THEN (weight * softDropSteps * (OPENING_BLOCK_LIMIT - filledBefore) * ScoreScale)
            \div OPENING_BLOCK_LIMIT
    ELSE 0

\* The numbers the penalty is the product of, none when it is not applied
PenaltyFactors(weight, filledBefore, softDropSteps) ==
    IF weight # 0 /\ filledBefore < OPENING_BLOCK_LIMIT
    THEN <<softDropSteps, filledBefore>>
    ELSE <<>>

\* score = deltaKpi * KPI_WEIGHT + fieldScore * FIELD_WEIGHT, in tenths, and
\* the opening penalty on top of it
Evaluated(state, action, cleared, kpiState) ==
    [nextState |-> NextAiState(state, cleared, kpiState,
                               spawnNextPiece(action.queueStateAfterCurrent,
                                              state.nextCount)),
     score |-> ((kpiState.windowScore - state.kpi.windowScore) * KPI_WEIGHT * ScoreScale)
               + (evaluateFieldBasic(cleared.field) * FIELD_WEIGHT)
               + OpeningPenalty(state.openingSoftDropWeight,
                                countFilledCells(state.field), action.softDropSteps),
     summands |-> <<kpiState.windowScore - state.kpi.windowScore,
                    PenaltyFactors(state.openingSoftDropWeight,
                                   countFilledCells(state.field), action.softDropSteps)>>]

EvaluatedLocked(state, action, lockedField, cleared) ==
    Evaluated(state, action, cleared,
              KpiAfterMove(state, action, lockedField, Len(cleared.clearedLines)))

applyMoveAndEvaluate(state, action) ==
    EvaluatedLocked(state, action, lockPiece(state.field, action.placement),
                    clearFullLines(lockPiece(state.field, action.placement)))

\* Faulty record: the rotation after the placement's is reported
FirstMoveTurned(action, score) ==
    [x |-> action.placement.x, y |-> action.placement.y,
     rotation |-> (action.placement.rotation + 1) % 4,
     pieceType |-> action.placement.type,
     useHold |-> action.useHold, score |-> score]

\* The firstMove of a root action; rotation is placement.rotation & 3
FirstMove(action, score) ==
    [x |-> action.placement.x, y |-> action.placement.y,
     rotation |-> action.placement.rotation % 4,
     pieceType |-> action.placement.type,
     useHold |-> action.useHold, score |-> score]

\* The firstMove of every root node, in the order of the actions
RootMoves(state, actions) ==
    [i \in 1..Len(actions) |->
        FirstMove(actions[i], applyMoveAndEvaluate(state, actions[i]).score)]

\* enumerateActionsForState, branch 2: the placements of the piece a hold brings
HoldActions(state, held) ==
    IF spawnActivePiece(state.field, held.current) = Null THEN <<>>
    ELSE ActionsOf(enumerateReachablePlacements(
                       state.field, spawnActivePiece(state.field, held.current)[1]),
                   TRUE, held.state)

\* enumerateActionsForState as a function of the state
enumerateActionsForState(state) ==
    IF state.active = Null THEN <<>>
    ELSE ActionsOf(enumerateReachablePlacements(state.field, state.active[1]),
                   FALSE, state.queueState)
         \o (IF state.queueState.canHold
             THEN HoldActions(state, holdCurrentPiece(state.queueState,
                                                      state.active[1].type,
                                                      state.nextCount))
             ELSE <<>>)

\* A SearchNode, and two things the code does not keep: summands, the
\* numbers besides the field that the score was computed from, and pathScore,
\* the sum of the scores of the moves that led to the node
SearchNode(state, score, firstMove, summands, pathScore) ==
    [state |-> state, score |-> score, firstMove |-> firstMove,
     summands |-> summands, pathScore |-> pathScore]

\* rootNodes.push({state: nextState, score, firstMove})
RootNode(evaluated, action) ==
    SearchNode(evaluated.nextState, evaluated.score,
               FirstMove(action, evaluated.score), evaluated.summands,
               evaluated.score)

RootNodes(state, actions) ==
    [i \in 1..Len(actions) |-> RootNode(applyMoveAndEvaluate(state, actions[i]), actions[i])]

\* Faulty inheritance: a deeper node reports its own placement
DeepMove(node, action, score) == FirstMove(action, score)

\* const firstMove = node.firstMove
BranchMove(node, action, score) == node.firstMove

\* Faulty score: the node carries the sum of the scores on its path
PathScore(node, score) == node.score + score

\* The score a deeper node carries: the score of its last move
NodeScore(node, score) == score

\* nextBeam.push({state: nextState, score, firstMove})
ChildNode(node, action, evaluated) ==
    SearchNode(evaluated.nextState, NodeScore(node, evaluated.score),
               BranchMove(node, action, evaluated.score), evaluated.summands,
               node.pathScore + evaluated.score)

\* Faulty test: the limit itself is not yet late
ExpiredAfter(elapsed, timeLimit) == elapsed > timeLimit

\* if (elapsed >= timeLimit)
Expired(elapsed, timeLimit) == elapsed >= timeLimit

\* Two scores computed from the same field and the same numbers are the same
\* floating-point number
SameSum(a, b) ==
    a.score = b.score /\ a.state.field = b.state.field /\ a.summands = b.summands

\* The nodes that sort((a, b) => b.score - a.score) may put first among those
\* left.  The sort is stable: of two nodes with the same sum the earlier
\* stays first.  Other scores that are equal here may differ in the last
\* bit of the code's floating-point sums.
TopNodes(nodes, left) ==
    {i \in left : \A j \in left :
        /\ nodes[j].score <= nodes[i].score
        /\ ~(j < i /\ SameSum(nodes[j], nodes[i]))}

\* sort(...).slice(0, beamWidth): the orders of the best width nodes
RECURSIVE RankedFrom(_, _, _)
RankedFrom(nodes, left, width) ==
    IF width = 0 \/ left = {} THEN {<<>>}
    ELSE UNION {{<<nodes[i]>> \o rest : rest \in RankedFrom(nodes, left \ {i}, width - 1)} :
                   i \in TopNodes(nodes, left)}

Ranked(nodes, width) == RankedFrom(nodes, 1..Len(nodes), width)

\* The AiResponse without its clock reading and its candidate sample
SearchResult(best, exploredStates, depthReached) ==
    [best |-> best, exploredStates |-> exploredStates, depthReached |-> depthReached]

(***************************************************************************)
(* The game hook (ui/hooks/useTetrisGame): configuration, GameState, the   *)
(* frame update and the key handler.  config.json is not part of the       *)
(* sources; the physics values are those of the repository's test fixture. *)
(***************************************************************************)
GRAVITY_CPS == 5

GRAVITY_INTERVAL_MS == 1000 \div GRAVITY_CPS

DAS_MS == 133

ARR_MS == 10

SOFT_DROP_MULTIPLIER == 20

SOFT_DROP_INTERVAL_MS ==
    IF SOFT_DROP_MULTIPLIER > 0
    THEN GRAVITY_INTERVAL_MS \div SOFT_DROP_MULTIPLIER
    ELSE GRAVITY_INTERVAL_MS

LOCK_DELAY_MS == 500

LOCK_RESETS_MAX == 15

NEXT_PREVIEW_COUNT == 5

DEFAULT_RNG_SEED == 123456789

\* isOnGround of a freshly spawned piece, false when the spawn failed
SpawnOnGround(field, active) == active # Null /\ ~canMoveDown(field, active[1])

InitialGameState(field, active, r) ==
    [field |-> field,
     active |-> active,
     gameOver |-> active = Null,
     lockDelayMsRemaining |-> LOCK_DELAY_MS,
     lockResetsUsed |-> 0,
     isOnGround |-> SpawnOnGround(field, active),
     gravityAccumulatorMs |-> 0,
     softDropAccumulatorMs |-> 0,
     dasTimerMs |-> 0,
     arrTimerMs |-> 0,
     lastHorizontalInput |-> 0,
     lastClearedLines |-> 0,
     totalClearedLines |-> 0,
     kpi |-> createInitialKpiState,
     elapsedMs |-> 0,
     lastMoveWasRotate |-> FALSE,
     pieceQueue |-> r.state,
     currentPieceType |-> r.current,
     aiMove |-> Null,
     aiElapsedMs |-> 0,
     aiDebug |-> Null]

InitialGameWith(r) ==
    InitialGameState(createEmptyField, spawnActivePiece(createEmptyField, r.current), r)

createInitialGameStateSync ==
    InitialGameWith(createInitialPieceQueue(DEFAULT_RNG_SEED, NEXT_PREVIEW_COUNT))

\* A faulty lock-delay rule that spends a reset at every move on the ground
ResetDelayUncapped(field, p, g) ==
    IF ~canMoveDown(field, p)
    THEN [g EXCEPT !.lockDelayMsRemaining = LOCK_DELAY_MS,
                   !.lockResetsUsed = g.lockResetsUsed + 1]
    ELSE [g EXCEPT !.lockDelayMsRemaining = LOCK_DELAY_MS]

\* The lock-delay rule applied after a move of the piece p: on the ground a
\* reset is spent while resets remain, in the air the delay is restored
ResetDelay(field, p, g) ==
    IF ~canMoveDown(field, p)
    THEN IF g.lockResetsUsed < LOCK_RESETS_MAX
         THEN [g EXCEPT !.lockDelayMsRemaining = LOCK_DELAY_MS,
                        !.lockResetsUsed = g.lockResetsUsed + 1]
         ELSE g
    ELSE [g EXCEPT !.lockDelayMsRemaining = LOCK_DELAY_MS]

\* Lock, line clear, T-spin, score and next piece: the part that the frame
\* update and HARD_DROP share.  g carries the timers the caller has set.
LockSpawned(g, clear, kind, timestampMs, spawnRes, nextActive) ==
    [g EXCEPT !.field = clear.field,
              !.active = nextActive,
              !.gameOver = nextActive = Null,
              !.lockDelayMsRemaining = LOCK_DELAY_MS,
              !.lockResetsUsed = 0,
              !.isOnGround = SpawnOnGround(clear.field, nextActive),
              !.softDropAccumulatorMs = 0,
              !.dasTimerMs = 0,
              !.arrTimerMs = 0,
              !.lastClearedLines = Len(clear.clearedLines),
              !.totalClearedLines = g.totalClearedLines + Len(clear.clearedLines),
              !.kpi = applyLineClear(g.kpi, kind, timestampMs),
              !.lastMoveWasRotate = FALSE,
              !.pieceQueue = spawnRes.state,
              !.currentPieceType = spawnRes.current,
              !.aiMove = Null]

LockCleared(g, piece, lockedField, clear, timestampMs, spawnRes) ==
    LockSpawned(g, clear,
                detectTSpin(lockedField, piece, Len(clear.clearedLines),
                            g.lastMoveWasRotate).lineClearKind,
                timestampMs, spawnRes, spawnActivePiece(clear.field, spawnRes.current))

LockAndSpawn(g, piece, timestampMs) ==
    LockCleared(g, piece, lockPiece(g.field, piece),
                clearFullLines(lockPiece(g.field, piece)), timestampMs,
                spawnNextPiece(g.pieceQueue, NEXT_PREVIEW_COUNT))

(***************************************************************************)
(* tickGameState: one frame of deltaMs with the held keys of input.  The   *)
(* function's local variables are carried in a GameState record g, its     *)
(* currentPiece being g.active.                                            *)
(***************************************************************************)
\* 1) while (gravityAccumulatorMs >= GRAVITY_INTERVAL_MS)
RECURSIVE GravityLoop(_)
GravityLoop(g) ==
    IF g.gravityAccumulatorMs >= GRAVITY_INTERVAL_MS
    THEN GravityLoop([g EXCEPT
             !.gravityAccumulatorMs = g.gravityAccumulatorMs - GRAVITY_INTERVAL_MS,
             !.active = Some(gravityTick(g.field, g.active[1]).piece)])
    ELSE g

\* 2) while (softDropAccumulatorMs >= interval), left when the piece is stuck
RECURSIVE SoftDropLoop(_)
SoftDropLoop(g) ==
    IF g.softDropAccumulatorMs < SOFT_DROP_INTERVAL_MS
    THEN g
    ELSE IF trySoftDrop(g.field, g.active[1]).y = g.active[1].y
    THEN [g EXCEPT !.softDropAccumulatorMs = g.softDropAccumulatorMs - SOFT_DROP_INTERVAL_MS]
    ELSE SoftDropLoop(ResetDelay(g.field, trySoftDrop(g.field, g.active[1]),
             [g EXCEPT
                 !.softDropAccumulatorMs = g.softDropAccumulatorMs - SOFT_DROP_INTERVAL_MS,
                 !.active = Some(trySoftDrop(g.field, g.active[1]))]))

TickSoftDrop(g, deltaMs, input) ==
    IF input.softDropHeld /\ SOFT_DROP_MULTIPLIER > 1
    THEN SoftDropLoop([g EXCEPT !.softDropAccumulatorMs = g.softDropAccumulatorMs + deltaMs])
    ELSE [g EXCEPT !.softDropAccumulatorMs = 0]

\* 3) the direction asked for by the held keys
horizontalDir(input) ==
    IF input.leftHeld /\ ~input.rightHeld THEN -1
    ELSE IF input.rightHeld /\ ~input.leftHeld THEN 1
    ELSE 0

HorizontalMove(field, piece, dir) ==
    IF dir = -1 THEN tryMoveLeft(field, piece) ELSE tryMoveRight(field, piece)

\* ARR_MS <= 0: while (true), until the piece is stuck
RECURSIVE SlideLoop(_, _)
SlideLoop(g, dir) ==
    IF HorizontalMove(g.field, g.active[1], dir).x = g.active[1].x
    THEN g
    ELSE SlideLoop(ResetDelay(g.field, HorizontalMove(g.field, g.active[1], dir),
                              [g EXCEPT !.active =
                                  Some(HorizontalMove(g.field, g.active[1], dir))]),
                   dir)

\* while (arrTimerMs >= ARR_MS), left with the timer cleared when stuck
RECURSIVE ArrLoop(_, _)
ArrLoop(g, dir) ==
    IF g.arrTimerMs < ARR_MS
    THEN g
    ELSE IF HorizontalMove(g.field, g.active[1], dir).x = g.active[1].x
    THEN [g EXCEPT !.arrTimerMs = 0]
    ELSE ArrLoop(ResetDelay(g.field, HorizontalMove(g.field, g.active[1], dir),
                            [g EXCEPT !.arrTimerMs = g.arrTimerMs - ARR_MS,
                                      !.active =
                                          Some(HorizontalMove(g.field, g.active[1], dir))]),
                 dir)

\* The timers are cleared on a change of direction, then DAS is charged
TickCharged(g, deltaMs, dir) ==
    IF dir # g.lastHorizontalInput
    THEN [g EXCEPT !.dasTimerMs = deltaMs, !.arrTimerMs = 0]
    ELSE [g EXCEPT !.dasTimerMs = g.dasTimerMs + deltaMs]

TickRepeat(g, deltaMs, dir) ==
    IF g.dasTimerMs < DAS_MS
    THEN g
    ELSE IF ARR_MS <= 0
    THEN SlideLoop(g, dir)
    ELSE ArrLoop([g EXCEPT !.arrTimerMs = g.arrTimerMs + deltaMs], dir)

TickHorizontal(g, deltaMs, dir) ==
    IF dir = 0
    THEN [g EXCEPT !.dasTimerMs = 0, !.arrTimerMs = 0, !.lastHorizontalInput = 0]
    ELSE [TickRepeat(TickCharged(g, deltaMs, dir), deltaMs, dir)
             EXCEPT !.lastHorizontalInput = dir]

\* 4), 5) on the ground the lock delay runs down to 0, in the air it is restored
TickGrounded(g, deltaMs) ==
    IF ~canMoveDown(g.field, g.active[1])
    THEN [g EXCEPT !.isOnGround = TRUE,
                   !.lockDelayMsRemaining =
                       IF g.lockDelayMsRemaining - deltaMs > 0
                       THEN g.lockDelayMsRemaining - deltaMs ELSE 0]
    ELSE [g EXCEPT !.isOnGround = FALSE, !.lockDelayMsRemaining = LOCK_DELAY_MS]

TickLocks(g) ==
    g.isOnGround /\ (g.lockDelayMsRemaining <= 0 \/ g.lockResetsUsed >= LOCK_RESETS_MAX)

\* 6), 7) lock and spawn, or the frame's state as it is
TickSettled(g) ==
    IF TickLocks(g) THEN LockAndSpawn(g, g.active[1], g.elapsedMs) ELSE g

TickMoved(prev, deltaMs, input) ==
    TickGrounded(
        TickHorizontal(
            TickSoftDrop(
                GravityLoop([prev EXCEPT
                    !.gravityAccumulatorMs = prev.gravityAccumulatorMs + deltaMs,
                    !.elapsedMs = prev.elapsedMs + deltaMs]),
                deltaMs, input),
            deltaMs, horizontalDir(input)),
        deltaMs)

tickGameState(prev, deltaMs, input) ==
    IF prev.gameOver THEN prev
    ELSE IF prev.active = Null THEN prev
    ELSE TickSettled(TickMoved(prev, deltaMs, input))

(***************************************************************************)
(* The state update of a keydown (every action but RESTART, which also     *)
(* starts a search).                                                       *)
(***************************************************************************)
KeyActions ==
    {"MOVE_LEFT", "MOVE_RIGHT", "SOFT_DROP", "ROTATE_CCW", "ROTATE_CW",
     "HOLD", "HARD_DROP", "RESTART"}

MoveActions == {"MOVE_LEFT", "MOVE_RIGHT", "SOFT_DROP"}

\* A key that is bound to no action
NoAction == "none"

\* The common tail of the move and rotate cases
KeyMoved(prev, newActive, lastMoveWasRotate) ==
    ResetDelay(prev.field, newActive,
               [prev EXCEPT !.active = Some(newActive),
                            !.isOnGround = ~canMoveDown(prev.field, newActive),
                            !.lastMoveWasRotate = lastMoveWasRotate])

KeyHeld(prev, res, newSpawn) ==
    [prev EXCEPT !.active = newSpawn,
                 !.gameOver = newSpawn = Null,
                 !.lockDelayMsRemaining = LOCK_DELAY_MS,
                 !.lockResetsUsed = 0,
                 !.isOnGround = SpawnOnGround(prev.field, newSpawn),
                 !.softDropAccumulatorMs = 0,
                 !.dasTimerMs = 0,
                 !.arrTimerMs = 0,
                 !.lastMoveWasRotate = FALSE,
                 !.pieceQueue = res.state,
                 !.currentPieceType = res.current,
                 !.aiMove = Null]

KeyHoldTaken(prev, res) == KeyHeld(prev, res, spawnActivePiece(prev.field, res.current))

KeyHold(prev) ==
    IF ~prev.pieceQueue.canHold
    THEN prev
    ELSE KeyHoldTaken(prev, holdCurrentPiece(prev.pieceQueue, prev.currentPieceType,
                                             NEXT_PREVIEW_COUNT))

KeyHardDrop(prev) ==
    LockAndSpawn(prev, hardDrop(prev.field, prev.active[1]).piece, prev.elapsedMs)

KeyUpdate(prev, action, repeat) ==
    IF action \in MoveActions /\ repeat THEN prev
    ELSE IF prev.gameOver THEN prev
    ELSE IF prev.active = Null THEN prev
    ELSE CASE action = "MOVE_LEFT" ->
                KeyMoved(prev, tryMoveLeft(prev.field, prev.active[1]), FALSE)
           [] action = "MOVE_RIGHT" ->
                KeyMoved(prev, tryMoveRight(prev.field, prev.active[1]), FALSE)
           [] action = "SOFT_DROP" ->
                KeyMoved(prev, trySoftDrop(prev.field, prev.active[1]), FALSE)
           [] action = "ROTATE_CCW" ->
                KeyMoved(prev, tryRotate(prev.field, prev.active[1], "ccw"), TRUE)
           [] action = "ROTATE_CW" ->
                KeyMoved(prev, tryRotate(prev.field, prev.active[1], "cw"), TRUE)
           [] action = "HOLD" -> KeyHold(prev)
           [] action = "HARD_DROP" -> KeyHardDrop(prev)
           [] OTHER -> prev

\* inputRef.current after the keydown or keyup of an action
InputSet(input, action, held) ==
    CASE action = "MOVE_LEFT" -> [input EXCEPT !.leftHeld = held]
      [] action = "MOVE_RIGHT" -> [input EXCEPT !.rightHeld = held]
      [] action = "SOFT_DROP" -> [input EXCEPT !.softDropHeld = held]
      [] OTHER -> input

(***************************************************************************)
(* The sequencer as a state machine: a run is created from a seed and a    *)
(* preview depth, and then draws and holds in any order.                   *)
(***************************************************************************)
Seeds == (0..MaxSeed) \cup {-1, 42, 100, 200, 300, 123456, 123456789, 305419896}

Previews == 0..MaxPreview

\* The caller's state after createInitialPieceQueue has returned r
SeqCreated(r, n) ==
    /\ qs = r.state
    /\ current = r.current
    /\ drawn = <<r.current>>
    /\ preview = n
    /\ seqOp = "create"
    /\ seqPre = [state |-> r.state, current |-> r.current, drawnLen |-> 0]

\* The sequencer at rest, for the runs that are about another component
SeqIdle ==
    /\ qs = [rng |-> createRng(0), queue |-> <<>>, hold |-> NoPiece, canHold |-> TRUE]
    /\ current = NoPiece
    /\ drawn = <<>>
    /\ preview = 0
    /\ seqSeed = 0
    /\ seqOp = "idle"
    /\ seqPre = [state |-> qs, current |-> NoPiece, drawnLen |-> 0]

\* No call has returned yet; a returned value r is kept as <<r>>
NoResult == <<>>

SrsIdle ==
    /\ srsField = <<>>
    /\ srsPiece = [type |-> NoPiece, rotation |-> 0, x |-> 0, y |-> 0]
    /\ srsDir = "cw"
    /\ srsRes = NoResult
    /\ kickQ = NoResult

ClrIdle ==
    /\ clrField = <<>>
    /\ clrRes = NoResult

GameIdle ==
    /\ game = <<>>
    /\ inputRef = <<>>
    /\ showKeyConfig = FALSE
    /\ aiComputing = FALSE
    /\ pendingRequest = NoResult
    /\ workerInbox = <<>>
    /\ workerOutbox = <<>>
    /\ gameEvent = "idle"
    /\ holdsSinceSpawn = 0
    /\ gameEvents = 0
    /\ steers = 0

PcIdle ==
    /\ pcField = <<>>
    /\ pcPiece = [type |-> NoPiece, rotation |-> 0, x |-> 0, y |-> 0]
    /\ pcRes = NoResult

KpiIdle ==
    /\ kpi = <<>>
    /\ kpiPre = <<>>
    /\ kpiLog = <<>>

\* The locals of the search before the plies below the root begin;
\* rootBestScore keeps the value globalBestScore had when ply 1 ended
NoSearch ==
    [beam |-> <<>>, nextBeam |-> <<>>, depth |-> 0, timeUp |-> FALSE,
     globalBestMove |-> Null, globalBestScore |-> 0, exploredStates |-> 0,
     node |-> 0, actions |-> <<>>, action |-> 0, clock |-> 0, rootBestScore |-> 0]

AiIdle ==
    /\ aiIn = <<>>
    /\ aiPhase = "idle"
    /\ aiActions = <<>>
    /\ aiOut = NoResult
    /\ search = NoSearch
    /\ enStart = [type |-> NoPiece, rotation |-> 0, x |-> 0, y |-> 0]
    /\ enQueue = <<>>
    /\ enVisited = <<>>
    /\ enResults = <<>>
    /\ enRequeued = 0

\* No object has been allocated
NoMem == [heap |-> <<>>, nodes |-> <<>>]

MemIdle == mem = NoMem

\* No landing has been recorded
LockIdle == lockMark = <<>>

UnitIdle == PcIdle /\ KpiIdle /\ AiIdle /\ MemIdle /\ LockIdle

InitSeq ==
    /\ \E seed \in Seeds, n \in Previews :
           /\ SeqCreated(createInitialPieceQueue(seed, n), n)
           /\ seqSeed = seed
    /\ SrsIdle
    /\ ClrIdle
    /\ GameIdle
    /\ UnitIdle

\* The caller takes over the result r of a draw or a hold; left is TRUE
\* when a piece has left the queue
SeqTakes(r, op, left) ==
    /\ qs' = r.state
    /\ current' = r.current
    /\ drawn' = IF left THEN Append(drawn, r.current) ELSE drawn
    /\ seqOp' = op
    /\ seqPre' = [state |-> qs, current |-> current, drawnLen |-> Len(drawn)]
    /\ UNCHANGED <<preview, seqSeed, srsVars, clrVars, gameVars, unitVars>>

Spawn ==
    /\ Len(drawn) < MaxDraws
    /\ SeqTakes(spawnNextPiece(qs, preview), "spawn", TRUE)

Hold ==
    /\ Len(drawn) < MaxDraws
    /\ SeqTakes(holdCurrentPiece(qs, current, preview), "hold",
                qs.canHold /\ qs.hold = NoPiece)

NextSeq == Spawn \/ Hold

Spec == InitSeq /\ [][NextSeq]_vars

(***************************************************************************)
(* The rotation system as a state machine: a piece pose, a direction and a *)
(* field with a few occupied cells around the piece; then one rotation.    *)
(***************************************************************************)
OriginXs == {-1, 4, 8}

OriginYs == {20, 37}

Poses ==
    [type : PieceKinds, rotation : Rotations, x : OriginXs, y : OriginYs]

\* The cells of the field that some kick candidate of the rotation touches
CandidateCells(piece, direction) ==
    LET to == rotateRotationIndex(piece.rotation, direction)
        kicks == getKickOffsets(piece.type, piece.rotation, to)
    IN  {c \in UNION {{getPieceCells(piece.type, to,
                                     piece.x + kicks[k].x, piece.y + kicks[k].y)[i]
                          : i \in 1..4} : k \in 1..Len(kicks)} :
            isInsideField(c.x, c.y)}

OccupiedCount(field) ==
    Cardinality({c \in (0..(FIELD_WIDTH - 1)) \X (0..(FIELD_HEIGHT - 1)) :
                    field[c[2] + 1][c[1] + 1] = 1})

InitSrs ==
    /\ UnitIdle
    /\ SeqIdle
    /\ ClrIdle
    /\ GameIdle
    /\ srsField = createEmptyField
    /\ srsPiece \in Poses
    /\ srsDir \in Directions
    /\ srsRes = NoResult
    /\ kickQ = NoResult

\* A block is placed on a cell the rotation will look at
SrsBlock ==
    /\ srsRes = NoResult /\ kickQ = NoResult
    /\ OccupiedCount(srsField) < MaxBlocked
    /\ \E c \in CandidateCells(srsPiece, srsDir) :
          /\ srsField[c.y + 1][c.x + 1] = 0
          /\ srsField' = SetCell(srsField, c.x, c.y)
    /\ UNCHANGED <<srsPiece, srsDir, srsRes, kickQ, seqVars, clrVars, gameVars, unitVars>>

\* trySrsRotate with the field's (x, y) => isCellEmpty(field, x, y)
SrsRotate ==
    /\ srsRes = NoResult /\ kickQ = NoResult
    /\ srsRes' = <<[env |-> "field",
                    res |-> trySrsRotate(srsPiece.type, srsPiece.rotation, srsDir,
                                         srsPiece.x, srsPiece.y, FieldFree(srsField))]>>
    /\ UNCHANGED <<srsField, srsPiece, srsDir, kickQ, seqVars, clrVars, gameVars, unitVars>>

\* trySrsRotate with () => true, the unobstructed space of the unit test
SrsRotateOpen ==
    /\ srsRes = NoResult /\ kickQ = NoResult
    /\ OccupiedCount(srsField) = 0
    /\ srsRes' = <<[env |-> "open",
                    res |-> trySrsRotate(srsPiece.type, srsPiece.rotation, srsDir,
                                         srsPiece.x, srsPiece.y, OpenSpace)]>>
    /\ UNCHANGED <<srsField, srsPiece, srsDir, kickQ, seqVars, clrVars, gameVars, unitVars>>

\* getKickOffsets for the piece's kind, from its rotation to any rotation
SrsLookup ==
    /\ srsRes = NoResult /\ kickQ = NoResult
    /\ OccupiedCount(srsField) = 0
    /\ \E to \in Rotations :
          kickQ' = <<[type |-> srsPiece.type, from |-> srsPiece.rotation, to |-> to,
                      offsets |-> getKickOffsets(srsPiece.type, srsPiece.rotation, to)]>>
    /\ UNCHANGED <<srsField, srsPiece, srsDir, srsRes, seqVars, clrVars, gameVars, unitVars>>

NextSrs == SrsBlock \/ SrsRotate \/ SrsRotateOpen \/ SrsLookup

SpecSrs == InitSrs /\ [][NextSrs]_vars

(***************************************************************************)
(* Line clearing as a state machine: rows of the field are filled, then    *)
(* clearFullLines runs once.                                               *)
(***************************************************************************)
\* The rows an input may fill: the two top rows and the bottom rows
ClearRows == {0, 1} \cup {FIELD_HEIGHT - k : k \in 1..MaxClearRows}

FullRow == [x \in 1..FIELD_WIDTH |-> 1]

\* A row that lacks only its last cell
AlmostFullRow == [x \in 1..FIELD_WIDTH |-> IF x = FIELD_WIDTH THEN 0 ELSE 1]

\* A partly filled row that differs from row to row: y in binary
TaggedRow(y) == [x \in 1..FIELD_WIDTH |-> ((y + 1) \div (2 ^ (x - 1))) % 2]

RowFills(y) == {FullRow, AlmostFullRow, TaggedRow(y)}

InitClr ==
    /\ UnitIdle
    /\ SeqIdle
    /\ SrsIdle
    /\ GameIdle
    /\ clrField = createEmptyField
    /\ clrRes = NoResult

ClrFillRow ==
    /\ clrRes = NoResult
    /\ \E y \in ClearRows :
          /\ clrField[y + 1] = EmptyRow
          /\ \E row \in RowFills(y) : clrField' = [clrField EXCEPT ![y + 1] = row]
    /\ UNCHANGED <<clrRes, seqVars, srsVars, gameVars, unitVars>>

ClrClear ==
    /\ clrRes = NoResult
    /\ clrRes' = <<clearFullLines(clrField)>>
    /\ UNCHANGED <<clrField, seqVars, srsVars, gameVars, unitVars>>

NextClr == ClrFillRow \/ ClrClear

SpecClr == InitClr /\ [][NextClr]_vars

(***************************************************************************)
(* A piece over a field as a state machine: blocks are placed on the cells *)
(* diagonal to the piece's centre and under the piece, then hardDrop or    *)
(* detectTSpin is called once.                                             *)
(***************************************************************************)
PcXs == {-1, 4, 8}

PcYs == {20, FIELD_HEIGHT - 2}

PcPoses == [type : PieceKinds, rotation : Rotations, x : PcXs, y : PcYs]

\* linesCleared as the callers can pass it: 0..4, the rows one lock can clear
LinesCleared == 0..4

\* Cells in the way of a falling piece: one just under its frame, one lower
PcUnder(piece) ==
    {[x |-> piece.x + 1, y |-> piece.y + 4], [x |-> piece.x + 2, y |-> piece.y + 7]}

PcCells(piece) ==
    {c \in {TCorners(piece)[i] : i \in 1..4} \cup PcUnder(piece) : isInsideField(c.x, c.y)}

InitPc ==
    /\ SeqIdle
    /\ SrsIdle
    /\ ClrIdle
    /\ GameIdle
    /\ KpiIdle
    /\ AiIdle
    /\ MemIdle
    /\ LockIdle
    /\ pcField = createEmptyField
    /\ pcPiece \in PcPoses
    /\ pcRes = NoResult

PcBlock ==
    /\ pcRes = NoResult
    /\ OccupiedCount(pcField) < MaxPcBlocks
    /\ \E c \in PcCells(pcPiece) :
          /\ pcField[c.y + 1][c.x + 1] = 0
          /\ pcField' = SetCell(pcField, c.x, c.y)
    /\ UNCHANGED <<pcPiece, pcRes, coreVars, kpiVars, aiVars>>

\* hardDrop(field, piece) for a piece that is where a piece can be
PcHardDrop ==
    /\ pcRes = NoResult
    /\ canPlacePiece(pcField, pcPiece)
    /\ pcRes' = <<[op |-> "hardDrop", res |-> hardDrop(pcField, pcPiece)]>>
    /\ UNCHANGED <<pcField, pcPiece, coreVars, kpiVars, aiVars>>

\* detectTSpin({field, piece, linesCleared, lastMoveWasRotate})
PcDetect ==
    /\ pcRes = NoResult
    /\ \E lines \in LinesCleared, rotated \in BOOLEAN :
          pcRes' = <<[op |-> "detectTSpin", linesCleared |-> lines,
                      lastMoveWasRotate |-> rotated,
                      res |-> detectTSpin(pcField, pcPiece, lines, rotated)]>>
    /\ UNCHANGED <<pcField, pcPiece, coreVars, kpiVars, aiVars>>

NextPc == PcBlock \/ PcHardDrop \/ PcDetect

SpecPc == InitPc /\ [][NextPc]_vars

(***************************************************************************)
(* The score as a state machine: applyLineClear is called with any kind,   *)
(* at timestamps that never decrease (the game passes its elapsed time).   *)
(***************************************************************************)
LineClearKinds ==
    {"none", "single", "double", "triple", "tetris",
     "tspinMiniSingle", "tspinSingle", "tspinDouble", "tspinTriple"}

\* Time between two events: half the window, and just more than the window
KpiDeltas == {KPI_WINDOW_MS \div 2, KPI_WINDOW_MS + 1}

KpiNow == IF Len(kpiLog) = 0 THEN 0 ELSE kpiLog[Len(kpiLog)].timestampMs

InitKpi ==
    /\ SeqIdle
    /\ SrsIdle
    /\ ClrIdle
    /\ GameIdle
    /\ PcIdle
    /\ AiIdle
    /\ MemIdle
    /\ LockIdle
    /\ kpi = createInitialKpiState
    /\ kpiPre = createInitialKpiState
    /\ kpiLog = <<>>

\* state = applyLineClear(state, {kind, timestampMs})
KpiApply ==
    /\ Len(kpiLog) < MaxKpiEvents
    /\ \E kind \in LineClearKinds, dt \in KpiDeltas :
          /\ kpi' = applyLineClear(kpi, kind, KpiNow + dt)
          /\ kpiLog' = Append(kpiLog, [kind |-> kind, timestampMs |-> KpiNow + dt,
                                       score |-> kpi'.totalScore - kpi.totalScore])
    /\ kpiPre' = kpi
    /\ UNCHANGED <<coreVars, pcVars, aiVars>>

NextKpi == KpiApply

SpecKpi == InitKpi /\ [][NextKpi]_vars

(***************************************************************************)
(* The search as a state machine: searchBestMoveOneStep is called on a     *)
(* state; each iteration of the enumerator's while loop is one step, the   *)
(* return of the enumerator to enumerateActionsForState another, and the   *)
(* evaluation of the collected actions the last.                           *)
(***************************************************************************)
AiNextCount == NEXT_PREVIEW_COUNT

AiSeeds == {42, 1234}

StackTop == 23

\* A stack up to row StackTop with column 0 left open
WellRow == [x \in 1..FIELD_WIDTH |-> IF x = 1 THEN 0 ELSE 1]

WellField == [y \in 1..FIELD_HEIGHT |-> IF y > StackTop THEN WellRow ELSE EmptyRow]

\* The same stack with one block left in the spawn rows
OverhangField == SetCell(WellField, SPAWN_X, SPAWN_Y)

\* The same stack with two blocks left in the rows below the spawn rows, which
\* make a rotation of the L piece kick downward
KickField == SetCell(SetCell(WellField, 6, 19), 4, 20)

AiFields == {createEmptyField, WellField, OverhangField, KickField}

\* The sequencer after creation, after a hold, and after the piece that follows
AiQueuesOf(created) ==
    {created,
     holdCurrentPiece(created.state, created.current, AiNextCount),
     spawnNextPiece(holdCurrentPiece(created.state, created.current,
                                     AiNextCount).state, AiNextCount)}

AiQueues == UNION {AiQueuesOf(createInitialPieceQueue(seed, AiNextCount)) : seed \in AiSeeds}

AiKpis == {createInitialKpiState, applyLineClear(createInitialKpiState, "tetris", 0)}

\* The readings of the clock are 0..MaxClock, and the time limits tried are
\* 0 and MaxClock
MaxClock == 1

\* Depths and widths of the deeper searches
MaxAiDepth == 3

MaxBeamWidth == 2

AiGameState(field, active, q, k, depth) ==
    [field |-> field, active |-> active, queueState |-> q.state, kpi |-> k,
     elapsedMs |-> 0, nextCount |-> AiNextCount, maxDepth |-> depth,
     beamWidth |-> 1, timeLimit |-> MaxClock, openingSoftDropWeight |-> 0]

\* The one-ply searches: every field, sequencer state and score
AiRootInputs ==
    {AiGameState(field, active, q, k, 1) :
        field \in AiFields, q \in AiQueues, k \in AiKpis, active \in {Null}}
    \cup
    {AiGameState(field, spawnActivePiece(field, q.current), q, k, 1) :
        field \in AiFields, q \in AiQueues, k \in AiKpis}

\* The stack with a slot in its two top rows that the L piece and the O
\* piece fill together: the upper row lacks columns 0..4, the lower row
\* columns 0, 3 and 4
SlotRow(upper) ==
    [x \in 1..FIELD_WIDTH |-> IF x \in {1, 4, 5} \/ (upper /\ x \in {2, 3}) THEN 0 ELSE 1]

SlotField ==
    [y \in 1..FIELD_HEIGHT |->
        IF y = StackTop + 1 THEN SlotRow(TRUE)
        ELSE IF y = StackTop + 2 THEN SlotRow(FALSE)
        ELSE WellField[y]]

\* The same field with blocks on the right of the stack that leave a notch
\* in column 7, which the L piece fills
NotchField ==
    SetCell(SetCell(SetCell(SetCell(SlotField, 6, StackTop - 2), 6, StackTop - 1),
                    8, StackTop - 1), 9, StackTop - 1)

\* The deeper searches: the slot, the sequencer that brings L and then O,
\* every depth, width and time limit; and the two-ply searches of every
\* width on the field with the notch
AiBeamInputs ==
    {[AiGameState(SlotField, spawnActivePiece(SlotField, q.current), q,
                  createInitialKpiState, depth)
         EXCEPT !.beamWidth = width, !.timeLimit = limit] :
        q \in {createInitialPieceQueue(1234, AiNextCount)},
        depth \in 2..MaxAiDepth, width \in 1..MaxBeamWidth, limit \in {0, MaxClock}}
    \cup
    {[AiGameState(NotchField, spawnActivePiece(NotchField, q.current), q,
                  createInitialKpiState, 2)
         EXCEPT !.beamWidth = width] :
        q \in {createInitialPieceQueue(1234, AiNextCount)},
        width \in 1..MaxBeamWidth}

\* A field almost empty, with the two blocks that make a rotation of the L
\* piece kick downward
OpeningField == SetCell(SetCell(createEmptyField, 6, 19), 4, 20)

\* The searches with an opening soft-drop weight: one that makes the
\* penalty of one step on an empty field one point
AiOpeningInputs ==
    {[AiGameState(OpeningField, spawnActivePiece(OpeningField, q.current), q,
                  createInitialKpiState, 1)
         EXCEPT !.openingSoftDropWeight = -OPENING_BLOCK_LIMIT] :
        q \in {createInitialPieceQueue(1234, AiNextCount)}}

AiInputs == AiRootInputs \cup AiBeamInputs \cup AiOpeningInputs

\* The calls on which the loop of the enumerator is followed to its end: the
\* fields with blocks near the spawn rows, every sequencer state of one seed
AiLiveInputs ==
    {AiGameState(field, spawnActivePiece(field, q.current), q, createInitialKpiState, 1) :
        field \in {OverhangField, KickField},
        q \in AiQueuesOf(createInitialPieceQueue(1234, AiNextCount))}
    \cup
    {AiGameState(KickField, active, createInitialPieceQueue(1234, AiNextCount),
                 createInitialKpiState, 2) :
        active \in {Null, spawnActivePiece(KickField, "L")}}

AiCalled(inputs) ==
    /\ SeqIdle
    /\ SrsIdle
    /\ ClrIdle
    /\ GameIdle
    /\ PcIdle
    /\ KpiIdle
    /\ MemIdle
    /\ LockIdle
    /\ aiIn \in inputs
    /\ aiPhase = "called"
    /\ aiActions = <<>>
    /\ aiOut = NoResult
    /\ search = NoSearch
    /\ enStart = [type |-> NoPiece, rotation |-> 0, x |-> 0, y |-> 0]
    /\ enQueue = <<>>
    /\ enVisited = <<>>
    /\ enResults = <<>>
    /\ enRequeued = 0

InitAi == AiCalled(AiInputs)

InitAiLive == AiCalled(AiLiveInputs)

\* enumerateReachablePlacements(field, start) up to its while loop
EnCall(start, begun) ==
    /\ enStart' = start
    /\ enQueue' = begun.queue
    /\ enVisited' = begun.visited
    /\ enResults' = <<>>
    /\ enRequeued' = 0

\* if (!state.active) return { best: null, exploredStates: 0, depthReached: 0 }
AiNoActive ==
    /\ aiPhase = "called"
    /\ aiIn.active = Null
    /\ aiOut' = Some(SearchResult(Null, 0, 0))
    /\ aiPhase' = "done"
    /\ UNCHANGED <<aiIn, aiActions, enVars, search, coreVars, pcVars, kpiVars>>

\* enumerateActionsForState, branch 1: the active piece as it is
AiEnumerate ==
    /\ aiPhase = "called"
    /\ aiIn.active # Null
    /\ EnCall(aiIn.active[1], EnumStart(aiIn.active[1]))
    /\ aiPhase' = "current"
    /\ UNCHANGED <<aiIn, aiActions, aiOut, search, coreVars, pcVars, kpiVars>>

EnStepTo(acc) ==
    /\ enQueue' = acc.queue
    /\ enVisited' = acc.visited
    /\ enRequeued' = acc.requeued

\* One iteration of while (queue.length > 0)
EnStep ==
    /\ aiPhase \in {"current", "hold"}
    /\ Len(enQueue) > 0
    /\ enResults' = Collected(aiIn.field, enResults, Head(enQueue))
    /\ \E neighbors \in {Neighbors(aiIn.field, Head(enQueue))} :
          \E acc \in {VisitAll([queue |-> Shifted(enQueue), visited |-> enVisited,
                                requeued |-> enRequeued], neighbors)} :
             EnStepTo(acc)
    /\ UNCHANGED <<enStart, aiIn, aiPhase, aiActions, aiOut, search, coreVars, pcVars, kpiVars>>

\* Branch 2 once the hold has been taken: the spawned piece is enumerated,
\* or the branch is skipped when it cannot spawn
HoldBranch(spawned) ==
    IF spawned # Null
    THEN /\ EnCall(spawned[1], EnumStart(spawned[1]))
         /\ aiPhase' = "hold"
    ELSE /\ aiPhase' = "actions"
         /\ UNCHANGED enVars

\* The enumerator returns the placements of the active piece
EnReturnCurrent ==
    /\ aiPhase = "current"
    /\ Len(enQueue) = 0
    /\ aiActions' = ActionsOf(enResults, FALSE, aiIn.queueState)
    /\ IF aiIn.queueState.canHold
       THEN HoldBranch(spawnActivePiece(aiIn.field,
                holdCurrentPiece(aiIn.queueState, aiIn.active[1].type,
                                 aiIn.nextCount).current))
       ELSE /\ aiPhase' = "actions"
            /\ UNCHANGED enVars
    /\ UNCHANGED <<aiIn, aiOut, search, coreVars, pcVars, kpiVars>>

\* The enumerator returns the placements of the piece the hold brought
EnReturnHold ==
    /\ aiPhase = "hold"
    /\ Len(enQueue) = 0
    /\ aiActions' = aiActions \o
          ActionsOf(enResults, TRUE,
                    holdCurrentPiece(aiIn.queueState, aiIn.active[1].type,
                                     aiIn.nextCount).state)
    /\ aiPhase' = "actions"
    /\ UNCHANGED <<aiIn, aiOut, enVars, search, coreVars, pcVars, kpiVars>>

MoveIndices(moves) == 1..Len(moves)

\* score > globalBestScore replaces the best: a move nothing scores above.
\* Scores that are equal here may differ in the last bit of the code's
\* floating-point sums, so any of them may be the one that is kept.
BestRootMoves(moves) ==
    {moves[i] : i \in {j \in MoveIndices(moves) :
                          \A k \in MoveIndices(moves) : moves[k].score <= moves[j].score}}

\* initialActions.length === 0, or the one-ply search of maxDepth 1
AiDecideFrom(moves) ==
    IF Len(moves) = 0
    THEN aiOut' = Some(SearchResult(Null, 0, 1))
    ELSE \E best \in BestRootMoves(moves) :
            aiOut' = Some(SearchResult(Some(best), Len(moves), 1))

AiDecide ==
    /\ aiPhase = "actions"
    /\ aiIn.maxDepth = 1 \/ Len(aiActions) = 0
    /\ AiDecideFrom(RootMoves(aiIn, aiActions))
    /\ aiPhase' = "done"
    /\ UNCHANGED <<aiIn, aiActions, enVars, search, coreVars, pcVars, kpiVars>>

\* The search returns what it has found
AiReturn(depth) ==
    /\ aiOut' = Some(SearchResult(search.globalBestMove, search.exploredStates, depth))
    /\ aiPhase' = "done"

\* Ply 1 of a deeper search: every root action is evaluated, the best of
\* them is the running best, and the beam is the best beamWidth root nodes
AiRootPlyFrom(rootNodes) ==
    \E best \in BestRootMoves([i \in 1..Len(rootNodes) |-> rootNodes[i].firstMove]) :
    \E beam \in Ranked(rootNodes, aiIn.beamWidth) :
        search' = [NoSearch EXCEPT !.beam = beam, !.depth = 1,
                                   !.globalBestMove = Some(best),
                                   !.globalBestScore = best.score,
                                   !.rootBestScore = best.score,
                                   !.exploredStates = Len(rootNodes),
                                   !.node = 1]

AiRootPly ==
    /\ aiPhase = "actions"
    /\ aiIn.maxDepth > 1
    /\ Len(aiActions) > 0
    /\ \E rootNodes \in {RootNodes(aiIn, aiActions)} : AiRootPlyFrom(rootNodes)
    /\ aiPhase' = "node"
    /\ UNCHANGED <<aiIn, aiActions, aiOut, enVars, coreVars, pcVars, kpiVars>>

\* nowMs() - startMs never runs backwards
ClockReadings == search.clock..MaxClock

\* elapsed >= timeLimit: timeUp = true; break
BeamTimeUp(now) ==
    /\ search' = [search EXCEPT !.clock = now, !.timeUp = TRUE]
    /\ aiPhase' = "plyEnd"

\* A beam node in time: a node without active piece or without actions is
\* passed over, any other has its actions enumerated
BeamNodeOpened(now, actions) ==
    IF Len(actions) = 0
    THEN /\ search' = [search EXCEPT !.clock = now, !.node = @ + 1]
         /\ aiPhase' = "node"
    ELSE /\ search' = [search EXCEPT !.clock = now, !.actions = actions, !.action = 1]
         /\ aiPhase' = "action"

\* for (const node of beam): the head of the loop
BeamNode ==
    /\ aiPhase = "node"
    /\ IF search.node > Len(search.beam)
       THEN /\ aiPhase' = "plyEnd"
            /\ UNCHANGED search
       ELSE \E now \in ClockReadings :
               IF Expired(now, aiIn.timeLimit)
               THEN BeamTimeUp(now)
               ELSE \E actions \in {enumerateActionsForState(
                                         search.beam[search.node].state)} :
                       BeamNodeOpened(now, actions)
    /\ UNCHANGED <<aiIn, aiActions, aiOut, enVars, coreVars, pcVars, kpiVars>>

\* if (score > globalBestScore): scores that are equal here may differ in
\* the last bit of the code's floating-point sums
MayReplaceBest(score, globalBestScore) ==
    IF score > globalBestScore THEN {TRUE}
    ELSE IF score = globalBestScore THEN BOOLEAN
    ELSE {FALSE}

\* An action in time: applied, counted, compared with the running best and
\* pushed on nextBeam
BeamChild(now, child) ==
    \E better \in MayReplaceBest(child.score, search.globalBestScore) :
        search' = [search EXCEPT
                      !.clock = now,
                      !.exploredStates = @ + 1,
                      !.globalBestMove = IF better THEN Some(child.firstMove) ELSE @,
                      !.globalBestScore = IF better THEN child.score ELSE @,
                      !.nextBeam = Append(@, child),
                      !.action = @ + 1]

\* for (const action of actions): the head of the loop
BeamAction ==
    /\ aiPhase = "action"
    /\ IF search.action > Len(search.actions)
       THEN /\ search' = [search EXCEPT !.node = @ + 1, !.actions = <<>>, !.action = 0]
            /\ aiPhase' = "node"
       ELSE \E now \in ClockReadings :
               IF Expired(now, aiIn.timeLimit)
               THEN BeamTimeUp(now)
               ELSE /\ \E child \in {ChildNode(search.beam[search.node],
                                                 search.actions[search.action],
                                                 applyMoveAndEvaluate(
                                                     search.beam[search.node].state,
                                                     search.actions[search.action]))} :
                          BeamChild(now, child)
                    /\ aiPhase' = "action"
    /\ UNCHANGED <<aiIn, aiActions, aiOut, enVars, coreVars, pcVars, kpiVars>>

\* The ply goes on to the next: beam = nextBeam.sort(...).slice(0, beamWidth),
\* depth++, and the while condition depth < maxDepth
BeamNextPly(beam) ==
    /\ search' = [search EXCEPT !.beam = beam, !.nextBeam = <<>>,
                                !.depth = @ + 1, !.node = 1]
    /\ IF search.depth + 1 < aiIn.maxDepth
       THEN /\ aiPhase' = "node"
            /\ UNCHANGED aiOut
       ELSE AiReturn(search.depth + 1)

\* After the loop over the beam: if (timeUp || nextBeam.length === 0) break
BeamPlyEnd ==
    /\ aiPhase = "plyEnd"
    /\ IF search.timeUp \/ Len(search.nextBeam) = 0
       THEN /\ AiReturn(search.depth)
            /\ UNCHANGED search
       ELSE \E beam \in Ranked(search.nextBeam, aiIn.beamWidth) : BeamNextPly(beam)
    /\ UNCHANGED <<aiIn, aiActions, enVars, coreVars, pcVars, kpiVars>>

NextAi ==
    \/ AiNoActive
    \/ AiEnumerate
    \/ EnStep
    \/ EnReturnCurrent
    \/ EnReturnHold
    \/ AiDecide
    \/ AiRootPly
    \/ BeamNode
    \/ BeamAction
    \/ BeamPlyEnd

SpecAi == InitAi /\ [][NextAi]_vars

\* The scheduling of a call: the loop of the enumerator runs on
SpecAiLive == InitAiLive /\ [][NextAi]_vars /\ WF_vars(EnStep)

(***************************************************************************)
(* The objects of the search as a state machine.  The arrays and objects   *)
(* of the code live in mem.heap, an address being an index of it: a field  *)
(* is an array of the addresses of its rows, a KpiState holds the address  *)
(* of its windowEvents, a PieceQueueState those of its rng and its queue,  *)
(* an AiGameState those of its field, queueState, kpi and nextPieces.      *)
(* mem.nodes are the addresses of the states of the search nodes, the      *)
(* first being the state the search was given.  One step expands one node  *)
(* by one action: enumerateActionsForState and applyMoveAndEvaluate, with  *)
(* every allocation and every write in place that they make.               *)
(***************************************************************************)
MaxMemNodes == 3

\* A new object: the heap with it, and its address
MAlloc(heap, obj) == [heap |-> Append(heap, obj), ref |-> Len(heap) + 1]

\* New objects, one for each element of objs, and their addresses in order
MAllocAll(heap, objs) ==
    [heap |-> heap \o objs, refs |-> [i \in 1..Len(objs) |-> Len(heap) + i]]

\* field.map((row) => row.slice()) of search.ts
SliceRows(heap, field) ==
    ApplyTo(MAllocAll(heap, [y \in 1..Len(heap[field]) |-> heap[heap[field][y]]]),
            LAMBDA rows : MAlloc(rows.heap, rows.refs))

\* field.map((row) => [...row]) of gravity.ts
SpreadRows(heap, field) ==
    ApplyTo(MAllocAll(heap, [y \in 1..Len(heap[field]) |-> heap[heap[field][y]]]),
            LAMBDA rows : MAlloc(rows.heap, rows.refs))

\* The field an address stands for
MemField(heap, field) == [y \in 1..Len(heap[field]) |-> heap[heap[field][y]]]

\* if (isInsideField(c.x, c.y)) newField[c.y][c.x] = 1, written in place
MemLockCell(heap, field, c) ==
    IF isInsideField(c.x, c.y)
    THEN [heap EXCEPT ![heap[field][c.y + 1]][c.x + 1] = 1]
    ELSE heap

\* lockPiece: the writes go to the rows of its own clone of the field
RECURSIVE MemLockCells(_, _, _, _)
MemLockCells(heap, field, cells, i) ==
    IF i > Len(cells) THEN heap
    ELSE ApplyTo(MemLockCell(heap, field, cells[i]),
                 LAMBDA written : MemLockCells(written, field, cells, i + 1))

MemLockPiece(heap, field, piece) ==
    ApplyTo(SpreadRows(heap, field),
            LAMBDA newField :
                [heap |-> MemLockCells(newField.heap, newField.ref,
                                       getPieceCells(piece.type, piece.rotation,
                                                     piece.x, piece.y), 1),
                 ref |-> newField.ref])

\* clearFullLines: newField is a new array, a kept row is pushed as [...row]
\* and a new empty row is unshifted for every full one, so that the height
\* is FIELD_HEIGHT again
MemKeptRows(heap, field) == SelectSeq(heap[field], LAMBDA r : ~IsFullRow(heap[r]))

MemClearedLines(heap, field) ==
    SelectSeq(RowIndices, LAMBDA y : IsFullRow(heap[heap[field][y + 1]]))

MemRestacked(copies, clearedLines) ==
    ApplyTo(MAllocAll(copies.heap, [i \in 1..Len(clearedLines) |-> EmptyRow]),
            LAMBDA empties :
                ApplyTo(MAlloc(empties.heap, empties.refs \o copies.refs),
                        LAMBDA newField :
                            [heap |-> newField.heap, ref |-> newField.ref,
                             clearedLines |-> clearedLines]))

MemClearFullLines(heap, field) ==
    ApplyTo(MemKeptRows(heap, field),
            LAMBDA kept :
                ApplyTo(MAllocAll(heap, [i \in 1..Len(kept) |-> heap[kept[i]]]),
                        LAMBDA copies :
                            ApplyTo(MemClearedLines(heap, field),
                                    LAMBDA clearedLines :
                                        MemRestacked(copies, clearedLines))))

\* Faulty filter: the entries are removed from the array itself
MemFilterInPlace(heap, events, cutoff) ==
    [heap |-> [heap EXCEPT ![events] = PruneEvents(heap[events], cutoff)],
     ref |-> events]

\* state.windowEvents.filter(...): a new array
MemFilterEvents(heap, events, cutoff) ==
    MAlloc(heap, PruneEvents(heap[events], cutoff))

\* if (score > 0) prunedEvents.push({ timestampMs, score }), written in place
MemPushEvent(heap, events, timestampMs, score) ==
    [heap EXCEPT ![events] = KpiPushed(heap[events], timestampMs, score)]

\* applyLineClear: the array it filters out of windowEvents, the push onto
\* that array, and the new KpiState that holds it
MemKpiScore(state, kind) ==
    IF kind = "none" THEN 0 ELSE scoreForKind(kind) + KpiB2BBonus(state, kind)

MemKpiReturned(heap, state, events, kind) ==
    MAlloc(heap,
           [totalScore |-> state.totalScore + MemKpiScore(state, kind),
            windowScore |-> SumScores(heap[events]),
            windowEvents |-> events,
            b2bActive |-> IF kind = "none" THEN state.b2bActive ELSE isB2BEligible(kind)])

MemApplyLineClear(heap, kpiRef, kind, timestampMs) ==
    ApplyTo(MemFilterEvents(heap, heap[kpiRef].windowEvents, timestampMs - KPI_WINDOW_MS),
            LAMBDA pruned :
                ApplyTo(IF kind = "none" THEN pruned.heap
                        ELSE MemPushEvent(pruned.heap, pruned.ref, timestampMs,
                                          MemKpiScore(heap[kpiRef], kind)),
                        LAMBDA pushed :
                            MemKpiReturned(pushed, heap[kpiRef], pruned.ref, kind)))

\* The loop of ensureQueue on the locals rng and queue: generateBag swaps
\* inside its own copy of ALL_PIECES, nextRandom returns a new rng and
\* concat a new queue
RECURSIVE MemEnsureLoop(_, _, _, _)
MemEnsureLoop(heap, rng, queue, minLength) ==
    IF Len(heap[queue]) < minLength
    THEN ApplyTo(generateBag(heap[rng]),
             LAMBDA g :
                 ApplyTo(MAlloc(heap, ALL_PIECES),
                     LAMBDA bag :
                         ApplyTo(MAlloc([bag.heap EXCEPT ![bag.ref] = g.bag], g.rng),
                             LAMBDA r2 :
                                 ApplyTo(MAlloc(r2.heap, heap[queue] \o g.bag),
                                     LAMBDA q2 :
                                         MemEnsureLoop(q2.heap, r2.ref, q2.ref,
                                                       minLength)))))
    ELSE [heap |-> heap, rng |-> rng, queue |-> queue]

\* ensureQueue: return { ...state, rng, queue }
MemEnsureQueue(heap, state, minLength) ==
    ApplyTo(MemEnsureLoop(heap, heap[state].rng, heap[state].queue, minLength),
            LAMBDA filled :
                MAlloc(filled.heap,
                       [heap[state] EXCEPT !.rng = filled.rng, !.queue = filled.queue]))

\* const [current, ...rest] = s.queue; s = { ...s, queue: rest, canHold: true }
MemSpawnTake(heap, s, nextPreviewCount) ==
    ApplyTo(MAlloc(heap, Tail(heap[heap[s].queue])),
        LAMBDA rest :
            ApplyTo(MAlloc(rest.heap,
                           [heap[s] EXCEPT !.queue = rest.ref, !.canHold = TRUE]),
                LAMBDA taken :
                    ApplyTo(MemEnsureQueue(taken.heap, taken.ref, nextPreviewCount),
                        LAMBDA filled :
                            [heap |-> filled.heap, ref |-> filled.ref,
                             current |-> Head(heap[heap[s].queue])])))

MemSpawnNextPiece(heap, state, nextPreviewCount) ==
    ApplyTo(MemEnsureQueue(heap, state, nextPreviewCount + 1),
        LAMBDA s :
            ApplyTo(IF Len(s.heap[s.heap[s.ref].queue]) = 0
                    THEN MemEnsureQueue(s.heap, s.ref, 1)
                    ELSE s,
                LAMBDA refilled :
                    MemSpawnTake(refilled.heap, refilled.ref, nextPreviewCount)))

MemHoldCurrentPiece(heap, state, cur, nextPreviewCount) ==
    IF ~heap[state].canHold
    THEN [heap |-> heap, ref |-> state, current |-> cur]
    ELSE IF heap[state].hold = NoPiece
    THEN ApplyTo(MAlloc(heap, [heap[state] EXCEPT !.hold = cur]),
             LAMBDA s :
                 ApplyTo(MemSpawnNextPiece(s.heap, s.ref, nextPreviewCount),
                     LAMBDA r :
                         ApplyTo(MAlloc(r.heap, [r.heap[r.ref] EXCEPT !.canHold = FALSE]),
                             LAMBDA out :
                                 [heap |-> out.heap, ref |-> out.ref,
                                  current |-> r.current])))
    ELSE ApplyTo(MAlloc(heap, [heap[state] EXCEPT !.hold = cur, !.canHold = FALSE]),
             LAMBDA s : [heap |-> s.heap, ref |-> s.ref, current |-> heap[state].hold])

\* The branch of enumerateActionsForState that holds, which the code runs
\* whenever canHold is set
MemHoldBranch(heap, state) ==
    IF heap[heap[state].queueState].canHold
    THEN MemHoldCurrentPiece(heap, heap[state].queueState, heap[state].active[1].type,
                             heap[state].nextCount)
    ELSE [heap |-> heap, ref |-> heap[state].queueState,
          current |-> heap[state].active[1].type]

\* kpiState = state.kpi, replaced by the result of applyLineClear after a clear
MemKpiAfterMove(heap, state, action, lockedField, clearedCount) ==
    IF clearedCount > 0
    THEN MemApplyLineClear(heap, heap[state].kpi,
                           detectTSpin(MemField(heap, lockedField), action.placement,
                                       clearedCount,
                                       action.lastMoveWasRotate).lineClearKind,
                           heap[state].elapsedMs)
    ELSE [heap |-> heap, ref |-> heap[state].kpi]

\* queue.slice(0, n): a new array
SliceTo(queue, n) == SubSeq(queue, 1, IF n < Len(queue) THEN n ELSE Len(queue))

\* The nextState object of applyMoveAndEvaluate
MemNextState(heap, state, clearedField, kpiState, spawnRes) ==
    ApplyTo(MAlloc(heap, SliceTo(heap[heap[spawnRes.ref].queue], heap[state].nextCount)),
        LAMBDA nextPieces :
            MAlloc(nextPieces.heap,
                   [field |-> clearedField,
                    active |-> spawnActivePiece(MemField(heap, clearedField),
                                                spawnRes.current),
                    hold |-> heap[spawnRes.ref].hold,
                    nextPieces |-> nextPieces.ref,
                    queueState |-> spawnRes.ref,
                    kpi |-> kpiState,
                    elapsedMs |-> heap[state].elapsedMs,
                    nextCount |-> heap[state].nextCount]))

\* The part of applyMoveAndEvaluate that follows the clear
MemAfterClear(state, action, lockedField, cleared) ==
    ApplyTo(MemKpiAfterMove(cleared.heap, state, action, lockedField,
                            Len(cleared.clearedLines)),
        LAMBDA kpiState :
            ApplyTo(MemSpawnNextPiece(kpiState.heap, action.queueStateAfterCurrent,
                                      kpiState.heap[state].nextCount),
                LAMBDA spawnRes :
                    MemNextState(spawnRes.heap, state, cleared.ref, kpiState.ref,
                                 spawnRes)))

MemApplyMove(heap, state, action) ==
    ApplyTo(SliceRows(heap, heap[state].field),
        LAMBDA workField :
            ApplyTo(MemLockPiece(workField.heap, workField.ref, action.placement),
                LAMBDA lockedField :
                    ApplyTo(MemClearFullLines(lockedField.heap, lockedField.ref),
                        LAMBDA cleared :
                            MemAfterClear(state, action, lockedField.ref, cleared))))

\* The state a node holds: its field, its piece-queue state and its KPI
\* state, read through the addresses
MemQueueState(heap, state) ==
    [rng |-> heap[heap[state].rng], queue |-> heap[heap[state].queue],
     hold |-> heap[state].hold, canHold |-> heap[state].canHold]

MemKpiState(heap, kpiRef) ==
    [heap[kpiRef] EXCEPT !.windowEvents = heap[heap[kpiRef].windowEvents]]

MemNodeState(heap, state) ==
    [field |-> MemField(heap, heap[state].field),
     active |-> heap[state].active,
     hold |-> heap[state].hold,
     nextPieces |-> heap[heap[state].nextPieces],
     queueState |-> MemQueueState(heap, heap[state].queueState),
     kpi |-> MemKpiState(heap, heap[state].kpi)]

\* The stack of two rows that lack columns 0 and 1, which the O piece fills
PairRow == [x \in 1..FIELD_WIDTH |-> IF x \in {1, 2} THEN 0 ELSE 1]

PairField ==
    [y \in 1..FIELD_HEIGHT |-> IF y > FIELD_HEIGHT - 2 THEN PairRow ELSE EmptyRow]

MemFields == {createEmptyField, PairField}

\* The columns a piece is dropped from
MemColumns == {-1, SPAWN_X}

\* The objects of the state the search is given
MemGivenField(field) == MAlloc(field, [y \in 1..Len(field) |-> y])

MemGivenKpi(heap, k) ==
    MAlloc(Append(heap, k.windowEvents), [k EXCEPT !.windowEvents = Len(heap) + 1])

MemGivenQueue(heap, q) ==
    MAlloc(heap \o <<q.rng, q.queue>>,
           [q EXCEPT !.rng = Len(heap) + 1, !.queue = Len(heap) + 2])

MemGivenState(heap, field, kpiState, queueState, q) ==
    MAlloc(Append(heap, SliceTo(q.state.queue, AiNextCount)),
           [field |-> field,
            active |-> spawnActivePiece(MemField(heap, field), q.current),
            hold |-> q.state.hold,
            nextPieces |-> Len(heap) + 1,
            queueState |-> queueState,
            kpi |-> kpiState,
            elapsedMs |-> 0,
            nextCount |-> AiNextCount])

MemGiven(field, q, k) ==
    ApplyTo(MemGivenField(field),
        LAMBDA f :
            ApplyTo(MemGivenKpi(f.heap, k),
                LAMBDA kpiState :
                    ApplyTo(MemGivenQueue(kpiState.heap, q.state),
                        LAMBDA queueState :
                            ApplyTo(MemGivenState(queueState.heap, f.ref, kpiState.ref,
                                                  queueState.ref, q),
                                LAMBDA state :
                                    [heap |-> state.heap, nodes |-> <<state.ref>>]))))

InitMem ==
    /\ \E field \in MemFields, q \in AiQueues, k \in AiKpis : mem = MemGiven(field, q, k)
    /\ SeqIdle
    /\ SrsIdle
    /\ ClrIdle
    /\ GameIdle
    /\ PcIdle
    /\ KpiIdle
    /\ AiIdle
    /\ LockIdle

\* The action that drops the piece from column x
MemAction(heap, state, piece, useHold, held, x) ==
    [placement |-> hardDrop(MemField(heap, heap[state].field),
                            [piece[1] EXCEPT !.x = x]).piece,
     useHold |-> useHold,
     lastMoveWasRotate |-> FALSE,
     queueStateAfterCurrent |-> IF useHold THEN held.ref ELSE heap[state].queueState]

MemExpanded(state, useHold, x, held, piece) ==
    /\ piece # Null
    /\ canPlacePiece(MemField(mem.heap, mem.heap[state].field), [piece[1] EXCEPT !.x = x])
    /\ \E action \in {MemAction(held.heap, state, piece, useHold, held, x)} :
           \E child \in {MemApplyMove(held.heap, state, action)} :
               mem' = [heap |-> child.heap, nodes |-> Append(mem.nodes, child.ref)]

\* One node is expanded by one action, with or without hold
MemExpand ==
    /\ Len(mem.nodes) < MaxMemNodes
    /\ \E i \in 1..Len(mem.nodes), useHold \in BOOLEAN, x \in MemColumns :
           /\ mem.heap[mem.nodes[i]].active # Null
           /\ useHold => mem.heap[mem.heap[mem.nodes[i]].queueState].canHold
           /\ \E held \in {MemHoldBranch(mem.heap, mem.nodes[i])} :
                  \E piece \in {IF useHold
                                THEN spawnActivePiece(
                                         MemField(mem.heap,
                                                  mem.heap[mem.nodes[i]].field),
                                         held.current)
                                ELSE mem.heap[mem.nodes[i]].active} :
                      MemExpanded(mem.nodes[i], useHold, x, held, piece)
    /\ UNCHANGED <<seqVars, srsVars, clrVars, gameVars, pcVars, kpiVars, aiVars, lockVars>>

NextMem == MemExpand

SpecMem == InitMem /\ [][NextMem]_vars

(***************************************************************************)
(* The game as a state machine: frames, key events, the search effect, the *)
(* worker and its replies, in any order.                                   *)
(***************************************************************************)
\* Frame lengths: an ordinary frame, and a stall long enough to land and lock
FrameDeltas == {16, 5000}

AI_TIME_LIMIT_MS == 10

buildAiGameStateForSearch(state) ==
    [field |-> state.field,
     active |-> state.active,
     hold |-> state.pieceQueue.hold,
     nextPieces |-> SubSeq(state.pieceQueue.queue, 1,
                           IF Len(state.pieceQueue.queue) < NEXT_PREVIEW_COUNT
                           THEN Len(state.pieceQueue.queue) ELSE NEXT_PREVIEW_COUNT),
     queueState |-> state.pieceQueue,
     kpi |-> state.kpi,
     elapsedMs |-> state.elapsedMs]

\* What the search answers, as far as the hook reads it: no move without an
\* active piece, else a move of that piece
SearchReply(aiState) ==
    IF aiState.active = Null
    THEN [best |-> Null, elapsedMs |-> 0, debug |-> Some([depthReached |-> 0])]
    ELSE [best |-> Some([pieceType |-> aiState.active[1].type, useHold |-> FALSE]),
          elapsedMs |-> AI_TIME_LIMIT_MS,
          debug |-> Some([depthReached |-> 1])]

\* recomputeAi's result once the search has answered: the state it was
\* called with, and the answer in the three AI fields
recomputeAiDone(state, result) ==
    [state EXCEPT !.aiMove = result.best,
                  !.aiElapsedMs = result.elapsedMs,
                  !.aiDebug = result.debug]

\* AiWorkerInterface.search: the caller's promise takes the one pending slot
\* and the request is posted to the worker
SearchPosted(origin, state) ==
    /\ pendingRequest' = Some([origin |-> origin, state |-> state])
    /\ workerInbox' = Append(workerInbox, buildAiGameStateForSearch(state))

InitGame ==
    /\ UnitIdle
    /\ SeqIdle
    /\ SrsIdle
    /\ ClrIdle
    /\ game = createInitialGameStateSync
    /\ inputRef = [leftHeld |-> FALSE, rightHeld |-> FALSE, softDropHeld |-> FALSE]
    /\ showKeyConfig = FALSE
    /\ aiComputing = FALSE
    /\ pendingRequest = NoResult
    /\ workerInbox = <<>>
    /\ workerOutbox = <<>>
    /\ gameEvent = "create"
    /\ holdsSinceSpawn = 0
    /\ gameEvents = 0
    /\ steers = 0

\* What a state update did to the sequencer: "lock" when a piece locked and
\* the next was drawn, "hold" when a hold was performed
Counted(event) ==
    /\ gameEvent' = event
    /\ gameEvents' = gameEvents + 1
    /\ steers' = IF event \in {"hold", "lock", "restart", "restartAsked"}
                 THEN steers ELSE steers + 1
    /\ steers' <= MaxSteers
    /\ holdsSinceSpawn' =
           CASE event \in {"lock", "restart"} -> 0
             [] event = "hold" ->
                  IF game.pieceQueue.hold = NoPiece THEN 1 ELSE holdsSinceSpawn + 1
             [] OTHER -> holdsSinceSpawn

\* A lock and a performed hold are the updates that change the sequencer
KeyEvent(prev, next, action) ==
    IF next.pieceQueue = prev.pieceQueue THEN "key"
    ELSE IF action = "HOLD" THEN "hold"
    ELSE "lock"

\* The frame callback: setState(prev => tickGameState(prev, deltaMs, inputRef.current))
GameFrame ==
    /\ gameEvents < MaxGameEvents
    /\ \E deltaMs \in FrameDeltas :
          /\ game' = tickGameState(game, deltaMs, inputRef)
          /\ Counted(IF game'.pieceQueue = game.pieceQueue THEN "frame" ELSE "lock")
    /\ UNCHANGED <<inputRef, showKeyConfig, aiComputing, pendingRequest,
                   workerInbox, workerOutbox, seqVars, srsVars, clrVars, unitVars>>

\* handleKeyDown for a key bound to an action other than RESTART, or to none
GameKeyDown ==
    /\ gameEvents < MaxGameEvents
    /\ ~showKeyConfig
    /\ \E action \in (KeyActions \ {"RESTART"}) \cup {NoAction} :
       \E repeat \in IF action \in MoveActions THEN BOOLEAN ELSE {FALSE} :
          /\ inputRef' = InputSet(inputRef, action, TRUE)
          /\ game' = KeyUpdate(game, action, repeat)
          /\ Counted(KeyEvent(game, game', action))
    /\ UNCHANGED <<showKeyConfig, aiComputing, pendingRequest,
                   workerInbox, workerOutbox, seqVars, srsVars, clrVars, unitVars>>

\* A restart: a new game, and recomputeAi(newState).then(setState) without a
\* look at aiComputingRef
Restarted(newState) ==
    /\ Counted("restart")
    /\ IF newState.active = Null
       THEN /\ game' = recomputeAiDone(newState, SearchReply([active |-> Null]))
            /\ UNCHANGED <<pendingRequest, workerInbox>>
       ELSE /\ game' = newState
            /\ SearchPosted("restart", newState)
    /\ UNCHANGED <<inputRef, showKeyConfig, aiComputing, workerOutbox,
                   seqVars, srsVars, clrVars, unitVars>>

\* handleKeyDown for the key bound to RESTART
GameRestartKey ==
    /\ gameEvents < MaxGameEvents
    /\ ~showKeyConfig
    /\ Restarted(createInitialGameStateSync)

\* handleRestart, the restart button: the new state arrives with the reply
GameRestartButton ==
    /\ gameEvents < MaxGameEvents
    /\ Counted("restartAsked")
    /\ SearchPosted("restart", createInitialGameStateSync)
    /\ UNCHANGED <<game, inputRef, showKeyConfig, aiComputing, workerOutbox,
                   seqVars, srsVars, clrVars, unitVars>>

\* handleKeyUp
GameKeyUp ==
    /\ gameEvents < MaxGameEvents
    /\ ~showKeyConfig
    /\ \E action \in MoveActions :
          /\ inputRef' = InputSet(inputRef, action, FALSE)
          /\ inputRef' # inputRef
    /\ Counted("keyup")
    /\ UNCHANGED <<game, showKeyConfig, aiComputing, pendingRequest,
                   workerInbox, workerOutbox, seqVars, srsVars, clrVars, unitVars>>

\* Escape opens and closes the key-configuration dialog
GameEscape ==
    /\ gameEvents < MaxGameEvents
    /\ showKeyConfig' = ~showKeyConfig
    /\ Counted("escape")
    /\ UNCHANGED <<game, inputRef, aiComputing, pendingRequest,
                   workerInbox, workerOutbox, seqVars, srsVars, clrVars, unitVars>>

\* The search effect, run by React after a render in which one of its
\* dependencies changed; here it may run in any state.  The state it passes
\* to recomputeAi is the state of that render.
AiEffect ==
    /\ game.active # Null
    /\ game.aiMove = Null
    /\ ~game.gameOver
    /\ ~aiComputing
    /\ aiComputing' = TRUE
    /\ SearchPosted("effect", game)
    /\ gameEvent' = "searchAsked"
    /\ UNCHANGED <<game, inputRef, showKeyConfig, workerOutbox, holdsSinceSpawn,
                   gameEvents, steers, seqVars, srsVars, clrVars, unitVars>>

\* The worker's onmessage: one request searched, its result posted back
WorkerSearch ==
    /\ Len(workerInbox) > 0
    /\ workerInbox' = Tail(workerInbox)
    /\ workerOutbox' = Append(workerOutbox, SearchReply(Head(workerInbox)))
    /\ gameEvent' = "searched"
    /\ UNCHANGED <<game, inputRef, showKeyConfig, aiComputing, pendingRequest,
                   holdsSinceSpawn, gameEvents, steers, seqVars, srsVars, clrVars, unitVars>>


\* handleMessage: the reply resolves the pending promise, whose continuation
\* clears aiComputingRef (the effect's only) and calls setState with the
\* state recomputeAi returns; a reply that finds no pending promise is dropped.
\* The state a restart's promise installs is a newly created game.
AiResponse ==
    /\ Len(workerOutbox) > 0
    /\ workerOutbox' = Tail(workerOutbox)
    /\ IF pendingRequest = NoResult
       THEN /\ gameEvent' = "replyDropped"
            /\ UNCHANGED <<game, aiComputing, pendingRequest>>
       ELSE /\ game' = recomputeAiDone(pendingRequest[1].state, Head(workerOutbox))
            /\ aiComputing' = IF pendingRequest[1].origin = "effect"
                              THEN FALSE ELSE aiComputing
            /\ pendingRequest' = NoResult
            /\ gameEvent' = "searchDone"
    /\ holdsSinceSpawn' =
           IF pendingRequest # NoResult /\ pendingRequest[1].origin = "restart"
           THEN 0 ELSE holdsSinceSpawn
    /\ UNCHANGED <<inputRef, showKeyConfig, workerInbox,
                   gameEvents, steers, seqVars, srsVars, clrVars, unitVars>>

NextGame ==
    \/ GameFrame
    \/ GameKeyDown
    \/ GameRestartKey
    \/ GameRestartButton
    \/ GameKeyUp
    \/ GameEscape
    \/ AiEffect
    \/ WorkerSearch
    \/ AiResponse

SpecGame == InitGame /\ [][NextGame]_vars

(***************************************************************************)
(* The lock of one piece as a state machine: the third piece of a game,    *)
(* the T, above a stack of the first two, and then frames, key presses and *)
(* key releases in any order until the next piece becomes active.          *)
(***************************************************************************)
NoKeysHeld == [leftHeld |-> FALSE, rightHeld |-> FALSE, softDropHeld |-> FALSE]

\* The game after a keydown of a key ("key", action) pressed and released,
\* or after a frame ("frame", deltaMs)
PlayedOne(state, event) ==
    IF event[1] = "key" THEN KeyUpdate(state, event[2], FALSE)
    ELSE tickGameState(state, event[2], NoKeysHeld)

RECURSIVE Played(_, _)
Played(state, events) ==
    IF Len(events) = 0 THEN state
    ELSE Played(PlayedOne(state, Head(events)), Tail(events))

\* The frame in which the T piece falls to one row above the stack
LockFallMs == 3600

\* The I piece dropped onto columns 5..8 and the L piece onto columns 1..3,
\* which leaves column 4 empty between a column of height 2 and one of
\* height 1; then the T piece turned at its spawn pose and fallen
LockScript ==
    << <<"key", "MOVE_RIGHT">>, <<"key", "MOVE_RIGHT">>, <<"key", "HARD_DROP">>,
       <<"key", "MOVE_LEFT">>, <<"key", "MOVE_LEFT">>, <<"key", "HARD_DROP">>,
       <<"key", "ROTATE_CW">>, <<"frame", LockFallMs>> >>

LockStart == Played(createInitialGameStateSync, LockScript)

\* Frame lengths: one step of gravity
LockDeltas == {GRAVITY_INTERVAL_MS}

\* The frames of a run
MaxLockFrames == 3

\* The keys of a run: a move, both rotations, HOLD and HARD_DROP
LockKeys == {"MOVE_LEFT", "ROTATE_CW", "ROTATE_CCW", "HOLD", "HARD_DROP"}

\* The clock at which the frames of a run end
MaxLockClock == LockFallMs + MaxLockFrames * GRAVITY_INTERVAL_MS

InitLock ==
    /\ PcIdle /\ KpiIdle /\ AiIdle /\ MemIdle
    /\ SeqIdle
    /\ SrsIdle
    /\ ClrIdle
    /\ game = LockStart
    /\ inputRef = NoKeysHeld
    /\ showKeyConfig = FALSE
    /\ aiComputing = FALSE
    /\ pendingRequest = NoResult
    /\ workerInbox = <<>>
    /\ workerOutbox = <<>>
    /\ gameEvent = "create"
    /\ holdsSinceSpawn = 0
    /\ gameEvents = 0
    /\ steers = 0
    /\ lockMark = Null

\* The run follows the piece until the next piece becomes active
LockRunning == gameEvent \notin {"lock", "hold"}

LockUnchanged ==
    UNCHANGED <<showKeyConfig, aiComputing, pendingRequest, workerInbox, workerOutbox,
                holdsSinceSpawn, gameEvents, steers,
                seqVars, srsVars, clrVars, pcVars, kpiVars, aiVars, memVars>>

\* The frame callback; the game is recorded when the frame lands the piece
\* that no key has touched since the start of the run
LockFrame ==
    /\ LockRunning
    /\ game.elapsedMs < MaxLockClock
    /\ \E deltaMs \in LockDeltas :
          game' = tickGameState(game, deltaMs, inputRef)
    /\ gameEvent' = IF game'.pieceQueue = game.pieceQueue THEN "frame" ELSE "lock"
    /\ lockMark' = IF game = LockStart /\ inputRef = NoKeysHeld /\ game'.isOnGround
                   THEN Some(game')
                   ELSE lockMark
    /\ UNCHANGED inputRef
    /\ LockUnchanged

\* handleKeyDown for a key of the run, not repeated
LockKeyDown ==
    /\ LockRunning
    /\ \E action \in LockKeys :
          /\ inputRef' = InputSet(inputRef, action, TRUE)
          /\ game' = KeyUpdate(game, action, FALSE)
          /\ gameEvent' = KeyEvent(game, game', action)
    /\ UNCHANGED lockMark
    /\ LockUnchanged

\* handleKeyUp
LockKeyUp ==
    /\ LockRunning
    /\ \E action \in MoveActions \cap LockKeys :
          /\ inputRef' = InputSet(inputRef, action, FALSE)
          /\ inputRef' # inputRef
    /\ gameEvent' = "keyup"
    /\ UNCHANGED <<game, lockMark>>
    /\ LockUnchanged

NextLock == LockFrame \/ LockKeyDown \/ LockKeyUp

SpecLock == InitLock /\ [][NextLock]_vars

(***************************************************************************)
(* Properties of the rotation system.                                      *)
(***************************************************************************)
NegateY(offsets) ==
    [i \in 1..Len(offsets) |-> [x |-> offsets[i].x, y |-> -offsets[i].y]]

Adjacent(from, to) == to = (from + 1) % 4 \/ to = (from + 3) % 4

\* C8: for each of the 8 adjacent transitions getKickOffsets returns the
\* guideline's 5 offsets with y negated, in the guideline's order, for the I
\* piece and for the shared J/L/S/T/Z table, and the single offset (0,0)
\* for the O piece.
C8_KickTablesAreGuidelineYDown ==
    (kickQ # NoResult /\ Adjacent(kickQ[1].from, kickQ[1].to)) =>
        /\ kickQ[1].type = "I" =>
              /\ kickQ[1].offsets = NegateY(GUIDELINE_I(kickQ[1].from, kickQ[1].to))
              /\ Len(kickQ[1].offsets) = 5
        /\ kickQ[1].type \in {"J", "L", "S", "T", "Z"} =>
              /\ kickQ[1].offsets = NegateY(GUIDELINE_JLSTZ(kickQ[1].from, kickQ[1].to))
              /\ Len(kickQ[1].offsets) = 5
        /\ kickQ[1].type = "O" => kickQ[1].offsets = <<[x |-> 0, y |-> 0]>>

C8_Witness_ILookup ==
    /\ kickQ # NoResult /\ kickQ[1].type = "I"
    /\ kickQ[1].from = 0 /\ kickQ[1].to = 3 /\ Len(kickQ[1].offsets) = 5

\* The k-th kick candidate of the rotation under way has its 4 cells free
Fits(k) ==
    LET to == rotateRotationIndex(srsPiece.rotation, srsDir)
        kick == getKickOffsets(srsPiece.type, srsPiece.rotation, to)[k]
    IN  \A c \in {[x |-> srsPiece.x + kick.x + SHAPES(srsPiece.type, to)[i].x,
                   y |-> srsPiece.y + kick.y + SHAPES(srsPiece.type, to)[i].y]
                     : i \in 1..4} :
            \/ srsRes[1].env = "open"
            \/ /\ c.x \in 0..(FIELD_WIDTH - 1) /\ c.y \in 0..(FIELD_HEIGHT - 1)
               /\ srsField[c.y + 1][c.x + 1] = 0

KickCount ==
    Len(getKickOffsets(srsPiece.type, srsPiece.rotation,
                       rotateRotationIndex(srsPiece.rotation, srsDir)))

\* The rotation succeeded with the k-th kick of the table
UsedKick(k) ==
    LET to == rotateRotationIndex(srsPiece.rotation, srsDir)
        kick == getKickOffsets(srsPiece.type, srsPiece.rotation, to)[k]
    IN  /\ srsRes[1].res.success
        /\ srsRes[1].res.usedOffset = kick
        /\ srsRes[1].res.originX = srsPiece.x + kick.x
        /\ srsRes[1].res.originY = srsPiece.y + kick.y
        /\ srsRes[1].res.rotation = to

\* C9: trySrsRotate succeeds with the first offset, in table order, whose 4
\* target cells are all free (the zero offset in an unobstructed field), and
\* returns the kicked anchor and the new rotation; when no candidate is free
\* it reports failure with rotation and anchor unchanged.
C9_FirstFreeKickWins ==
    srsRes # NoResult =>
        /\ \A k \in 1..KickCount :
              (Fits(k) /\ \A j \in 1..(k - 1) : ~Fits(j)) => UsedKick(k)
        /\ (\A k \in 1..KickCount : ~Fits(k)) =>
              /\ ~srsRes[1].res.success
              /\ srsRes[1].res.rotation = srsPiece.rotation
              /\ srsRes[1].res.originX = srsPiece.x
              /\ srsRes[1].res.originY = srsPiece.y
        /\ srsRes[1].env = "open" =>
              /\ srsRes[1].res.success
              /\ srsRes[1].res.usedOffset = [x |-> 0, y |-> 0]
              /\ srsRes[1].res.originX = srsPiece.x
              /\ srsRes[1].res.originY = srsPiece.y

\* A later candidate wins although the last candidate of the table fits too
C9_Witness_LaterKickWins ==
    /\ srsRes # NoResult /\ srsRes[1].env = "field"
    /\ KickCount = 5 /\ ~Fits(1) /\ ~Fits(2) /\ Fits(3) /\ Fits(5) /\ UsedKick(3)

(***************************************************************************)
(* Properties of line clearing.                                            *)
(***************************************************************************)
\* The rows of the input that are completely filled (source indices)
FullRowsOf(field) ==
    {y \in 0..(FIELD_HEIGHT - 1) : \A x \in 1..FIELD_WIDTH : field[y + 1][x] = 1}

\* C10: clearFullLines returns a field of exactly FIELD_HEIGHT rows in which
\* the non-full rows of the input appear in their original order contiguously
\* at the bottom under k empty rows, k being the number of full rows, and
\* returns the original indices of the full rows in ascending order.
C10_ClearRestacksRows ==
    clrRes # NoResult =>
        /\ Len(clrRes[1].field) = FIELD_HEIGHT
        /\ \A i \in 1..Cardinality(FullRowsOf(clrField)) :
              clrRes[1].field[i] = [x \in 1..FIELD_WIDTH |-> 0]
        /\ \A y \in (0..(FIELD_HEIGHT - 1)) \ FullRowsOf(clrField) :
              clrRes[1].field[y + 1 + Cardinality({f \in FullRowsOf(clrField) : f > y})]
                  = clrField[y + 1]
        /\ Len(clrRes[1].clearedLines) = Cardinality(FullRowsOf(clrField))
        /\ {clrRes[1].clearedLines[i] : i \in 1..Len(clrRes[1].clearedLines)}
               = FullRowsOf(clrField)
        /\ \A i \in 1..(Len(clrRes[1].clearedLines) - 1) :
              clrRes[1].clearedLines[i] < clrRes[1].clearedLines[i + 1]

\* Two full rows that are not neighbours, with kept rows above and between
C10_Witness_TwoSeparateFullRows ==
    /\ clrRes # NoResult
    /\ clrRes[1].clearedLines = <<FIELD_HEIGHT - 3, FIELD_HEIGHT - 1>>
    /\ clrField[FIELD_HEIGHT - 1] # EmptyRow
    /\ clrField[FIELD_HEIGHT - 3] # EmptyRow
    /\ clrField[1] # EmptyRow

\* The hold rule as the sequencer's two functions keep it: canHold is true
\* after spawnNextPiece, false after a performed hold, and a hold that finds
\* canHold false changes nothing
HoldRuleOfTheSequencer ==
    /\ seqOp = "spawn" => qs.canHold
    /\ seqOp = "hold" /\ seqPre.state.canHold => ~qs.canHold
    /\ seqOp = "hold" /\ ~seqPre.state.canHold =>
           qs = seqPre.state /\ current = seqPre.current

(***************************************************************************)
(* Properties of the hold rule in the game.                                *)
(***************************************************************************)
\* C7: canHold is true after every lock (spawnNextPiece) and false after every
\* performed hold, and at most one HOLD event changes the state between two
\* consecutive draws from the queue.
C7_OneHoldBetweenSpawns ==
    /\ gameEvent = "lock" => game.pieceQueue.canHold
    /\ gameEvent = "hold" => ~game.pieceQueue.canHold
    /\ holdsSinceSpawn <= 1

(***************************************************************************)
(* Properties of the search requests of the game.                          *)
(***************************************************************************)
\* The requests posted to the worker whose reply the interface has not yet
\* handled: those waiting to be searched and those answered but in flight
OutstandingRequests == Len(workerInbox) + Len(workerOutbox)

\* C25: whatever the order of frames, key events, restarts and worker
\* replies, at most one search request is outstanding at the worker.
C25_OneRequestOutstanding == OutstandingRequests <= 1

\* The step is handleMessage resolving the pending promise
PromiseResolved == gameEvent' = "searchDone" /\ workerOutbox' = Tail(workerOutbox)

\* C32 as stated: the promise a reply resolves is the promise of the call
\* the worker computed that reply for, so the result it is resolved with is
\* the result of the search on that call's own state.
C32_PromiseGetsItsOwnResult ==
    [][PromiseResolved =>
          (Head(workerOutbox)
               = SearchReply(buildAiGameStateForSearch(pendingRequest[1].state)))]_vars

\* C33 as stated, by what it needs in every state: the promise of the
\* effect's search is resolved only by a reply that finds its resolver in
\* the pending slot, and only that clears aiComputingRef; so while the flag
\* is set the slot holds the effect's resolver.
C33_EffectPromiseCanBeResolved ==
    aiComputing => (pendingRequest # NoResult /\ pendingRequest[1].origin = "effect")

\* The flag is set and the resolver of the effect's promise is in no slot
FlagOrphaned ==
    /\ aiComputing
    /\ pendingRequest = NoResult \/ pendingRequest[1].origin # "effect"

\* Once the flag is orphaned it stays so: the effect never searches again
OrphanedFlagStaysSet == [][FlagOrphaned => FlagOrphaned']_vars

\* C34 as stated, for the searches of the effect: when the search completes,
\* the game state is the state at completion time with aiMove, aiElapsedMs
\* and aiDebug replaced, so the field, the active piece, the piece queue,
\* the KPI state and the timers keep their values.
C34_CompletionChangesAiFieldsOnly ==
    [][(PromiseResolved /\ pendingRequest[1].origin = "effect") =>
          (game' = recomputeAiDone(game, Head(workerOutbox)))]_vars

(***************************************************************************)
(* Properties of the lock of a piece in the game.                          *)
(***************************************************************************)
\* The piece the step locked lay where the state before the step has it
LockedWhereItWas ==
    game'.field = clearFullLines(lockPiece(game.field, game.active[1])).field

\* C37 as stated: on a step that locks a piece, by the lock delay or by a
\* hard drop, the lastMoveWasRotate passed to detectTSpin (the flag of the
\* state before the step) is true only if the rotation was the last action
\* that changed the pose, so the piece locks in the pose the flag was set in.
C37_RotateFlagOnlyForRotatedPose ==
    [][(gameEvent' = "lock" /\ game.lastMoveWasRotate) => LockedWhereItWas]_vars

\* C35: in every state of the game lockResetsUsed lies in 0..LOCK_RESETS_MAX
\* and lockDelayMsRemaining in 0..LOCK_DELAY_MS, and when a new piece has
\* become active, by a lock, a hard drop or a hold, the resets are 0 and
\* the delay is the full delay.
C35_LockCountersInRange ==
    /\ game.lockResetsUsed \in 0..LOCK_RESETS_MAX
    /\ game.lockDelayMsRemaining \in 0..LOCK_DELAY_MS
    /\ gameEvent \in {"lock", "hold"} =>
          /\ game.lockResetsUsed = 0
          /\ game.lockDelayMsRemaining = LOCK_DELAY_MS

\* The piece lies on the ground with every reset spent, after a frame has
\* run the delay down and a key has been pressed
C35_Witness_ResetsSpent ==
    /\ game.lockResetsUsed = LOCK_RESETS_MAX
    /\ game.isOnGround
    /\ game.elapsedMs > LockFallMs + GRAVITY_INTERVAL_MS
    /\ gameEvent = "key"

\* The game but for its clock
ClockAside(g) == [g EXCEPT !.elapsedMs = 0]

\* C36 as stated, by what it rules out: while the same piece is active and
\* frames pass, the game, its clock aside, never comes back to the state it
\* had when the piece landed, with no key held then and now; a state that
\* comes back can come back for ever, and the piece is never locked.
C36_LandingNeverComesBack ==
    (lockMark # Null /\ game.elapsedMs > lockMark[1].elapsedMs) =>
        ~(/\ ClockAside(game) = ClockAside(lockMark[1])
          /\ inputRef = NoKeysHeld)

(***************************************************************************)
(* Properties of the sequencer.                                            *)
(***************************************************************************)
IsPrefix(s, t) == Len(s) <= Len(t) /\ SubSeq(t, 1, Len(s)) = s

DrawGroup(k) == {drawn[7 * k + i] : i \in 1..7}

\* C1: counting every piece that leaves the queue (by a draw or by a hold
\* into the empty slot), each consecutive non-overlapping group of 7 draws
\* holds each of the 7 piece kinds exactly once.
C1_EachGroupOfSevenIsABag ==
    \A k \in 0..((Len(drawn) \div 7) - 1) :
        DrawGroup(k) = PieceKinds /\ Cardinality(DrawGroup(k)) = 7

C1_Witness_ThreeGroupsWithHold ==
    Len(drawn) = 21 /\ qs.hold # NoPiece /\ seqOp = "hold"

\* C2: after createInitialPieceQueue and after every spawnNextPiece, in any
\* sequence of draws and holds, the queue holds at least previewDepth pieces.
C2_QueueNeverBelowPreview ==
    seqOp \in {"create", "spawn"} => Len(qs.queue) >= preview

C2_Witness_SpawnAtExactlyPreview ==
    /\ seqOp = "spawn" /\ preview >= 1 /\ Len(qs.queue) = preview
    /\ qs.hold # NoPiece /\ Len(drawn) > 7

\* C3: the queue only grows by whole bags: pieces drawn so far plus the
\* queue length is a multiple of 7 in every reachable state.
C3_QueueGrowsByWholeBags ==
    (Len(drawn) + Len(qs.queue)) % 7 = 0

C3_Witness_RefilledAfterCreation ==
    Len(drawn) + Len(qs.queue) >= 21 /\ Len(drawn) >= 8 /\ preview < 7

\* C4: a hold with canHold true and an empty slot puts the current piece
\* into the slot, makes the front of the queue the new current piece,
\* removes exactly that one piece and leaves canHold false.
C4_HoldIntoEmptySlot ==
    (seqOp = "hold" /\ seqPre.state.canHold /\ seqPre.state.hold = NoPiece) =>
        /\ qs.hold = seqPre.current
        /\ ~qs.canHold
        /\ Len(seqPre.state.queue) > 0 => current = Head(seqPre.state.queue)
        /\ IsPrefix(seqPre.state.queue, <<current>> \o qs.queue)
        /\ (Len(qs.queue) + 1 - Len(seqPre.state.queue)) % 7 = 0
        /\ Len(drawn) = seqPre.drawnLen + 1
        /\ drawn[Len(drawn)] = current

C4_Witness_HoldIntoEmptySlot ==
    /\ seqOp = "hold" /\ seqPre.state.canHold /\ seqPre.state.hold = NoPiece
    /\ Len(seqPre.state.queue) > 0 /\ Len(drawn) > 2

\* C5: a hold with canHold true and an occupied slot swaps the current
\* piece with the held one, leaves queue and RNG unchanged, canHold false.
C5_HoldSwapKeepsQueue ==
    (seqOp = "hold" /\ seqPre.state.canHold /\ seqPre.state.hold # NoPiece) =>
        /\ current = seqPre.state.hold
        /\ qs.hold = seqPre.current
        /\ qs.queue = seqPre.state.queue
        /\ qs.rng = seqPre.state.rng
        /\ ~qs.canHold
        /\ Len(drawn) = seqPre.drawnLen

C5_Witness_HoldSwap ==
    /\ seqOp = "hold" /\ seqPre.state.canHold /\ seqPre.state.hold # NoPiece
    /\ seqPre.state.hold # seqPre.current

\* C6: a hold while canHold is false returns the same queue state and the
\* same current piece, whatever the hold slot contains.
C6_HoldRefusedIsNoOp ==
    (seqOp = "hold" /\ ~seqPre.state.canHold) =>
        /\ qs = seqPre.state
        /\ current = seqPre.current
        /\ Len(drawn) = seqPre.drawnLen

C6_Witness_HoldRefused ==
    seqOp = "hold" /\ ~seqPre.state.canHold /\ qs.hold # NoPiece

\* A hold that found canHold true and the slot empty
HeldIntoEmptySlot == seqOp = "hold" /\ seqPre.state.canHold /\ seqPre.state.hold = NoPiece

\* C26 as stated: a hold into the empty slot leaves at least preview pieces
\* in the queue and no more pieces than the queue had before.
C26_HoldNeverLengthensQueue ==
    HeldIntoEmptySlot =>
        /\ Len(qs.queue) >= preview
        /\ Len(qs.queue) <= Len(seqPre.state.queue)

\* C26 as the code has it: the queue keeps at least preview pieces; it loses
\* one piece when it held more than preview pieces, and otherwise it takes a
\* whole bag of 7 first and so ends 6 pieces longer.
C26_HoldTakesOneAfterTopUp ==
    HeldIntoEmptySlot =>
        /\ Len(qs.queue) >= preview
        /\ Len(seqPre.state.queue) > preview =>
              Len(qs.queue) = Len(seqPre.state.queue) - 1
        /\ Len(seqPre.state.queue) <= preview =>
              Len(qs.queue) = Len(seqPre.state.queue) + Len(ALL_PIECES) - 1

\* A hold into the empty slot found exactly preview pieces and left more
C26_Witness_HoldAfterTopUp ==
    /\ HeldIntoEmptySlot
    /\ preview > 0
    /\ Len(seqPre.state.queue) = preview
    /\ Len(qs.queue) > Len(seqPre.state.queue)

\* The first k bags that generateBag deals from the generator state rng
RECURSIVE BagsFrom(_, _)
BagsFrom(rng, k) ==
    IF k = 0 THEN <<>>
    ELSE generateBag(rng).bag \o BagsFrom(generateBag(rng).rng, k - 1)

\* The first n pieces dealt from the generator state rng
DealtFrom(rng, n) == SubSeq(BagsFrom(rng, (n + 6) \div 7), 1, n)

\* C38: the pieces that have left the queue are the pieces dealt from the
\* seed's generator, whatever the preview depth and whatever holds were
\* performed, and a run of seed 0 deals the pieces of seed 0x12345678.
C38_DrawsDependOnSeedOnly ==
    /\ drawn = DealtFrom(createRng(seqSeed), Len(drawn))
    /\ seqSeed = 0 => drawn = DealtFrom(createRng(305419896), Len(drawn))

\* A run of seed 0 with a preview of one piece, after holds and a refill
C38_Witness_SeedZeroWithHolds ==
    /\ seqSeed = 0 /\ preview = 1 /\ Len(drawn) > 14
    /\ qs.hold # NoPiece /\ seqOp = "hold" /\ ~seqPre.state.canHold

(***************************************************************************)
(* Properties of the hard drop.                                            *)
(***************************************************************************)
\* C11: hardDrop of a placeable piece returns a piece of the same kind,
\* rotation and x that can be placed and cannot move down any further, and a
\* distance equal to the rows descended, final y minus initial y.
C11_HardDropLandsAndCounts ==
    (pcRes # NoResult /\ pcRes[1].op = "hardDrop") =>
        /\ pcRes[1].res.piece.type = pcPiece.type
        /\ pcRes[1].res.piece.rotation = pcPiece.rotation
        /\ pcRes[1].res.piece.x = pcPiece.x
        /\ canPlacePiece(pcField, pcRes[1].res.piece)
        /\ ~canMoveDown(pcField, pcRes[1].res.piece)
        /\ pcRes[1].res.distance = pcRes[1].res.piece.y - pcPiece.y
        /\ pcRes[1].res.distance >= 0

\* A piece stopped by a block above the floor, after a descent of some rows
C11_Witness_StoppedByBlock ==
    /\ pcRes # NoResult /\ pcRes[1].op = "hardDrop"
    /\ pcRes[1].res.distance > 0
    /\ pcRes[1].res.piece.y + 4 < FIELD_HEIGHT
    /\ OccupiedCount(pcField) > 0

(***************************************************************************)
(* Properties of the T-spin classifier.                                    *)
(***************************************************************************)
\* The cells diagonal to (pcPiece.x + 1, pcPiece.y + 1) that are occupied,
\* a cell outside the field counting as occupied
DiagonalsTaken ==
    {d \in {-1, 1} \X {-1, 1} :
        \/ pcPiece.x + 1 + d[1] \notin 0..(FIELD_WIDTH - 1)
        \/ pcPiece.y + 1 + d[2] \notin 0..(FIELD_HEIGHT - 1)
        \/ pcField[pcPiece.y + 2 + d[2]][pcPiece.x + 2 + d[1]] = 1}

OrdinaryKind(lines) ==
    IF lines = 0 THEN "none" ELSE <<"single", "double", "triple", "tetris">>[lines]

\* The four conditions of a spin hold for the call that was made
SpinConditions ==
    /\ pcPiece.type = "T"
    /\ pcRes[1].linesCleared >= 1
    /\ pcRes[1].lastMoveWasRotate
    /\ Cardinality(DiagonalsTaken) >= 3

C13_FourLinesAreOrdinary ==
    (pcRes # NoResult /\ pcRes[1].op = "detectTSpin" /\ pcRes[1].linesCleared = 4) =>
        /\ pcRes[1].res.category = "none"
        /\ pcRes[1].res.lineClearKind = "tetris"

\* The part of C13 that the code keeps: the kind of a 4-line clear is tetris
FourLinesScoreAsTetris ==
    (pcRes # NoResult /\ pcRes[1].op = "detectTSpin" /\ pcRes[1].linesCleared = 4) =>
        pcRes[1].res.lineClearKind = "tetris"

\* C31: detectTSpin gives the same result on the field before the piece is
\* locked as on the field after the lock and before the clear, for every
\* pose, line count and rotation flag.
C31_SameBeforeAndAfterLock ==
    (pcRes # NoResult /\ pcRes[1].op = "detectTSpin") =>
        pcRes[1].res = detectTSpin(lockPiece(pcField, pcPiece), pcPiece,
                                   pcRes[1].linesCleared, pcRes[1].lastMoveWasRotate)

\* A T-spin was found on the field before the lock, and the lock adds the
\* cells of the T piece to that field
C31_Witness_SpinBeforeTheLock ==
    /\ pcRes # NoResult
    /\ pcRes[1].op = "detectTSpin"
    /\ pcPiece.type = "T"
    /\ pcRes[1].res.category = "tspin"
    /\ canPlacePiece(pcField, pcPiece)
    /\ OccupiedCount(lockPiece(pcField, pcPiece)) = OccupiedCount(pcField) + 4

(***************************************************************************)
(* Properties of the score.                                                *)
(***************************************************************************)
ChainKinds == {"tetris", "tspinMiniSingle", "tspinSingle", "tspinDouble", "tspinTriple"}

\* The most recent event before the i-th that is no "none" was chain-eligible
ChainBefore(i) ==
    \E j \in 1..(i - 1) :
        /\ kpiLog[j].kind \in ChainKinds
        /\ \A k \in (j + 1)..(i - 1) : kpiLog[k].kind = "none"

\* C14: a chain-eligible clear adds its base score plus 1 exactly when the
\* most recent earlier event of a kind other than none was chain-eligible,
\* and its base score alone otherwise; a single, double or triple adds its
\* base score and ends the chain.
C14_ChainBonus ==
    /\ \A i \in 1..Len(kpiLog) :
          /\ kpiLog[i].kind \in ChainKinds =>
                kpiLog[i].score =
                    BASE_SCORES(kpiLog[i].kind) + (IF ChainBefore(i) THEN 1 ELSE 0)
          /\ kpiLog[i].kind \in {"single", "double", "triple"} =>
                kpiLog[i].score = BASE_SCORES(kpiLog[i].kind)
    /\ kpi.b2bActive <=> ChainBefore(Len(kpiLog) + 1)

\* A chain kept across a none event, paid on the next eligible clear, and
\* ended by a double
C14_Witness_ChainKeptThenEnded ==
    /\ Len(kpiLog) = 4
    /\ [i \in 1..4 |-> kpiLog[i].kind] = <<"tetris", "none", "tspinDouble", "double">>
    /\ [i \in 1..4 |-> kpiLog[i].score] = <<4, 0, 5, 1>>
    /\ kpi.totalScore = 10
    /\ ~kpi.b2bActive

\* One unit per point of score of each entry: the total of the entries is
\* the number of units
EntryUnits(events) ==
    UNION {{<<i, u>> : u \in 1..events[i].score} : i \in 1..Len(events)}

EntriesTotal(events) == Cardinality(EntryUnits(events))

\* The last event applied, and the start of the window it left
LastEvent == kpiLog[Len(kpiLog)]

Cutoff == LastEvent.timestampMs - KPI_WINDOW_MS

\* The total of the entries that the last call found too old
EvictedTotal ==
    Cardinality({p \in EntryUnits(kpiPre.windowEvents) :
                    kpiPre.windowEvents[p[1]].timestampMs < Cutoff})

\* C15 as stated: a none event leaves the cumulative total, the window total
\* and the chain flag unchanged, at any timestamp.
C15_NoneChangesNothing ==
    (Len(kpiLog) > 0 /\ LastEvent.kind = "none") =>
        /\ kpi.totalScore = kpiPre.totalScore
        /\ kpi.windowScore = kpiPre.windowScore
        /\ kpi.b2bActive = kpiPre.b2bActive

\* C15: a none event leaves the cumulative total and the chain flag
\* unchanged and adds no entry; the window total falls by the scores of the
\* entries older than timestamp - 300000, which the call evicts, and is
\* unchanged when there is none.
C15_NoneOnlyEvicts ==
    (Len(kpiLog) > 0 /\ LastEvent.kind = "none") =>
        /\ kpi.totalScore = kpiPre.totalScore
        /\ kpi.b2bActive = kpiPre.b2bActive
        /\ kpi.windowScore = kpiPre.windowScore - EvictedTotal
        /\ kpi.windowEvents =
               SelectSeq(kpiPre.windowEvents, LAMBDA e : e.timestampMs >= Cutoff)
        /\ EvictedTotal = 0 => kpi.windowScore = kpiPre.windowScore

\* A none event inside a chain that evicts one entry and keeps another
C15_Witness_NoneEvicts ==
    /\ Len(kpiLog) > 0 /\ LastEvent.kind = "none"
    /\ kpiPre.b2bActive
    /\ EvictedTotal > 0
    /\ kpi.windowScore > 0

\* The entries that the scoring events of the log have pushed, in order
ScoredEvents ==
    SelectSeq([i \in 1..Len(kpiLog) |->
                  [timestampMs |-> kpiLog[i].timestampMs, score |-> kpiLog[i].score]],
              LAMBDA e : e.score > 0)

\* C16: after applyLineClear with timestamp t the window holds no entry with
\* a timestamp below t - 300000 and holds, in their order, every entry that
\* an event with a timestamp at or above t - 300000 has pushed (an event that
\* scores 0 pushes none); the cumulative total is the sum of the scores of
\* all events applied, evicted or not.
C16_WindowEvictsOnlyOldEvents ==
    Len(kpiLog) > 0 =>
        /\ \A i \in 1..Len(kpi.windowEvents) : kpi.windowEvents[i].timestampMs >= Cutoff
        /\ kpi.windowEvents = SelectSeq(ScoredEvents, LAMBDA e : e.timestampMs >= Cutoff)
        /\ kpi.totalScore = EntriesTotal(ScoredEvents)

\* One entry evicted, one kept that is exactly 300000 ms old, one new
C16_Witness_KeptAtTheBoundary ==
    /\ Len(kpiLog) > 0
    /\ Len(ScoredEvents) > Len(kpi.windowEvents)
    /\ Len(kpi.windowEvents) >= 2
    /\ kpi.windowEvents[1].timestampMs = Cutoff
    /\ kpi.totalScore > kpi.windowScore

\* C17: in every state reachable from createInitialKpiState by applyLineClear
\* calls, windowScore is the sum of the scores of the entries of windowEvents.
C17_WindowScoreIsSumOfEntries ==
    kpi.windowScore = EntriesTotal(kpi.windowEvents)

\* A window of two entries after another entry has been evicted
C17_Witness_SumAfterEviction ==
    /\ Len(kpi.windowEvents) = 2
    /\ kpiPre.windowScore > 0
    /\ kpi.windowScore < kpiPre.windowScore + LastEvent.score
    /\ LastEvent.score > 0

\* The cells of a placement
PlacementCells(p) == getPieceCells(p.piece.type, p.piece.rotation, p.piece.x, p.piece.y)

\* C18: every placement the enumerator has collected, and so every one it
\* returns, has its 4 cells inside the field and on cells of the given field
\* that hold no block.
C18_PlacementsInsideAndFree ==
    \A i \in 1..Len(enResults) :
        \A c \in {PlacementCells(enResults[i])[k] : k \in 1..4} :
            /\ isInsideField(c.x, c.y)
            /\ aiIn.field[c.y + 1][c.x + 1] = 0

\* The enumerator has returned a placement that rests on the stack of a
\* field with blocks, next to the right wall
C18_Witness_ReturnedOnTheStack ==
    /\ aiPhase = "actions"
    /\ aiIn.field # createEmptyField
    /\ \E i \in 1..Len(enResults) :
          /\ \E k \in 1..4 : PlacementCells(enResults[i])[k].x = FIELD_WIDTH - 1
          /\ \E k \in 1..4 : PlacementCells(enResults[i])[k].y = StackTop - 1

\* A pose with the kind of the step that led to it
PoseKey(piece, byRotation) == <<piece.type, piece.rotation, piece.x, piece.y, byRotation>>

KeyPiece(key) == PieceAt(key[1], key[2], key[3], key[4])

\* The poses one left, right or soft-drop step away, and those one rotation away
ShiftedPoses(field, piece) ==
    {tryMoveLeft(field, piece), tryMoveRight(field, piece), trySoftDrop(field, piece)}
    \ {piece}

TurnedPoses(field, piece) ==
    {tryRotate(field, piece, "cw"), tryRotate(field, piece, "ccw")} \ {piece}

OneStepFrom(field, key) ==
    {PoseKey(p, FALSE) : p \in ShiftedPoses(field, KeyPiece(key))}
    \cup {PoseKey(p, TRUE) : p \in TurnedPoses(field, KeyPiece(key))}

\* The keys reachable from the frontier, added to those already seen
RECURSIVE ReachedFrom(_, _, _)
ReachedFrom(field, frontier, seen) ==
    IF frontier = {} THEN seen
    ELSE ApplyTo((UNION {OneStepFrom(field, key) : key \in frontier}) \ seen,
                 LAMBDA fresh : ReachedFrom(field, fresh, seen \cup fresh))

\* Every pose reachable from the start by steps, with the kind of its last
\* step; the start itself counts as reached without a rotation
ReachableKeys(field, start) ==
    ReachedFrom(field, {PoseKey(start, FALSE)}, {PoseKey(start, FALSE)})

RestingKeys(field, start) ==
    {key \in ReachableKeys(field, start) : ~canMoveDown(field, KeyPiece(key))}

EnReturning == aiPhase \in {"current", "hold"} /\ Len(enQueue) = 0

\* C27: what the enumerator returns is every reachable pose from which the
\* piece cannot descend, whether or not other moves remain from it, and an
\* entry carries lastMoveWasRotate exactly when a path ending in a rotation
\* leads to its pose.
C27_ReturnsEveryRestingPose ==
    EnReturning =>
        {PoseKey(enResults[i].piece, enResults[i].lastMoveWasRotate) :
            i \in 1..Len(enResults)} = RestingKeys(aiIn.field, enStart)

\* The enumerator returns a pose twice, once reached by a rotation and once
\* not, although the piece can still move sideways from it
C27_Witness_RestingPoseWithMoves ==
    /\ EnReturning
    /\ \E i, j \in 1..Len(enResults) :
          /\ enResults[i].piece = enResults[j].piece
          /\ enResults[i].lastMoveWasRotate
          /\ ~enResults[j].lastMoveWasRotate
          /\ tryMoveLeft(aiIn.field, enResults[i].piece) # enResults[i].piece

\* C39 as stated: the list the enumerator returns holds no two entries with
\* the same pose and the same lastMoveWasRotate flag.
C39_NoPlacementTwice ==
    EnReturning =>
        \A i, j \in 1..Len(enResults) :
            (/\ enResults[i].piece = enResults[j].piece
             /\ enResults[i].lastMoveWasRotate = enResults[j].lastMoveWasRotate)
                => i = j

\* C40: for a start piece that can be placed on the field the enumerator
\* returns at least one placement, and the search called with a placeable
\* active piece does not return without a move.
C40_PlaceableStartHasAPlacement ==
    /\ (EnReturning /\ canPlacePiece(aiIn.field, enStart)) => Len(enResults) >= 1
    /\ (/\ aiPhase = "done"
        /\ aiIn.active # Null
        /\ canPlacePiece(aiIn.field, aiIn.active[1])) => aiOut[1].best # Null

\* The enumerator returns for a start piece that spawned among blocks and
\* cannot descend from its spawn pose
C40_Witness_StartAmongBlocks ==
    /\ EnReturning
    /\ canPlacePiece(aiIn.field, enStart)
    /\ ~canMoveDown(aiIn.field, enStart)
    /\ aiIn.field # createEmptyField
    /\ Len(enResults) >= 1

\* The nodes the loop step has pushed: the queue loses its head and gains them
EnPushed == SubSeq(enQueue', Len(enQueue), Len(enQueue'))

EnLooping == aiPhase \in {"current", "hold"} /\ Len(enQueue) > 0

\* The neighbours of the node at the head of the queue whose key is visited
EnSeenAgain ==
    {n \in {Neighbors(aiIn.field, Head(enQueue))[i] :
                i \in 1..Len(Neighbors(aiIn.field, Head(enQueue)))} :
        hashNode(n) \in DOMAIN enVisited}

\* C28 as stated: a visited node that is reached again with an equal or a
\* smaller soft-drop count is not pushed for another expansion.
C28_SeenAgainNotPushed ==
    [][EnLooping =>
          \A n \in EnSeenAgain :
              n.softDropSteps <= enVisited[hashNode(n)] =>
                  \A i \in 1..Len(EnPushed) : EnPushed[i] # n]_vars

\* C28 as the code has it: a visited node that is reached again with an
\* equal or a larger soft-drop count is not pushed and keeps its count; one
\* reached with a smaller count is pushed again and takes the smaller count.
C28_SeenAgainPushedOnlyIfCheaper ==
    [][EnLooping =>
          \A n \in EnSeenAgain :
              IF n.softDropSteps >= enVisited[hashNode(n)]
              THEN /\ \A i \in 1..Len(EnPushed) : EnPushed[i] # n
                   /\ enVisited'[hashNode(n)] = enVisited[hashNode(n)]
              ELSE /\ \E i \in 1..Len(EnPushed) : EnPushed[i] = n
                   /\ enVisited'[hashNode(n)] = n.softDropSteps]_vars

\* A visited node has been pushed again and the loop is still running; a node
\* below the start that cost no soft drop waits in the queue
C28_Witness_PushedAgain ==
    /\ aiPhase \in {"current", "hold"}
    /\ enRequeued = 1
    /\ Len(enQueue) > 1
    /\ \E i \in 1..Len(enQueue) :
          /\ enQueue[i].softDropSteps = 0
          /\ enQueue[i].piece.y > enStart.y

\* C19: the enumerator terminates: whenever its work queue holds a node, the
\* queue becomes empty later on, also in a call in which a node that had been
\* visited was enqueued again.
C19_QueueBecomesEmpty == (Len(enQueue) > 0) ~> (Len(enQueue) = 0)

\* The loop has ended in a call that enqueued a visited node again
C19_Witness_EndedAfterRequeue ==
    /\ aiPhase \in {"current", "hold"}
    /\ enStart.type # NoPiece
    /\ Len(enQueue) = 0
    /\ enRequeued > 0
    /\ Len(enResults) > 0

\* The cells of a recommended move, from its piece kind, rotation, x and y
MoveCells(move) == getPieceCells(move.pieceType, move.rotation, move.x, move.y)

\* C20: the search returns best = null exactly when the state has no active
\* piece or no placement is reachable; the move it returns otherwise has its
\* 4 cells inside the field.
C20_BestNullOrInsideField ==
    aiOut # NoResult =>
        /\ (aiOut[1].best = Null) <=> (aiIn.active = Null \/ Len(aiActions) = 0)
        /\ aiOut[1].best # Null =>
              \A k \in 1..4 : isInsideField(MoveCells(aiOut[1].best[1])[k].x,
                                            MoveCells(aiOut[1].best[1])[k].y)

\* A one-ply search on a field with blocks has returned a move that uses the
\* hold and lies against the right wall
C20_Witness_HoldMoveAtTheWall ==
    /\ aiOut # NoResult
    /\ aiIn.maxDepth = 1
    /\ aiIn.field # createEmptyField
    /\ aiOut[1].best # Null
    /\ aiOut[1].best[1].useHold
    /\ \E k \in 1..4 : MoveCells(aiOut[1].best[1])[k].x = FIELD_WIDTH - 1

(***************************************************************************)
(* Properties of the plies below the root.                                 *)
(***************************************************************************)
BeamPhases == {"node", "action", "plyEnd"}

\* The move is the placement, piece kind and hold flag of the action
IsMoveOf(move, action) ==
    /\ move.x = action.placement.x
    /\ move.y = action.placement.y
    /\ move.rotation = action.placement.rotation
    /\ move.pieceType = action.placement.type
    /\ move.useHold = action.useHold

IsRootMove(move) == \E i \in 1..Len(aiActions) : IsMoveOf(move, aiActions[i])

\* C22: the running best and the move returned are always one of the ply-1
\* actions of the root state, also when a node of a deeper ply has set the best.
C22_BestIsARootAction ==
    /\ aiPhase \in BeamPhases => IsRootMove(search.globalBestMove[1])
    /\ (aiPhase = "done" /\ aiOut[1].best # Null) => IsRootMove(aiOut[1].best[1])

\* A search has returned after a node of ply 2 scored above every root
\* action: the move returned carries the lower score it had at ply 1
C22_Witness_DeeperNodeSetTheBest ==
    /\ aiPhase = "done"
    /\ search.depth = 2
    /\ aiOut[1].best # Null
    /\ search.globalBestScore > aiOut[1].best[1].score
    /\ \A i \in 1..Len(search.beam) :
          search.beam[i].firstMove.score < search.globalBestScore

\* C23: a clock reading that has reached timeLimit (a limit of 0 included)
\* applies no action and ends the ply, and the search then returns the best
\* first move found so far, which is not null.
C23_TimeUpReturnsTheBest ==
    [][/\ (aiPhase \in {"node", "action"} /\ search'.clock >= aiIn.timeLimit) =>
             /\ search'.timeUp
             /\ aiPhase' = "plyEnd"
             /\ search'.exploredStates = search.exploredStates
             /\ search'.nextBeam = search.nextBeam
             /\ search'.globalBestMove = search.globalBestMove
       /\ (aiPhase = "plyEnd" /\ search.timeUp) =>
             /\ aiPhase' = "done"
             /\ search.globalBestMove # Null
             /\ aiOut' = Some(SearchResult(search.globalBestMove,
                                           search.exploredStates, search.depth))]_vars

\* A search has returned because its time was up in the middle of a ply,
\* after some actions of that ply had been applied
C23_Witness_TimeUpInsideAPly ==
    /\ aiPhase = "done"
    /\ search.timeUp
    /\ Len(search.nextBeam) > 0
    /\ search.exploredStates = Len(aiActions) + Len(search.nextBeam)
    /\ aiOut[1].best = search.globalBestMove
    /\ aiOut[1].best # Null

\* The node pushed on nextBeam by a step, when one is
PushedChild == search'.nextBeam[Len(search'.nextBeam)]

\* C30 as stated: the score a node of the beam carries is the sum of the
\* scores of all moves on its path from the root state.
C30_NodeCarriesPathScore ==
    \A i \in 1..Len(search.nextBeam) :
        search.nextBeam[i].score = search.nextBeam[i].pathScore

\* C30: the score a node of the beam carries is the score of the last move
\* on its path alone: the sum over the path less the sum over the path of
\* the node it was expanded from.
C30_NodeCarriesLastMoveScore ==
    [][(aiPhase = "action" /\ Len(search'.nextBeam) = Len(search.nextBeam) + 1) =>
          PushedChild.score =
              PushedChild.pathScore - search.beam[search.node].pathScore]_vars

\* A node at ply 3 carries a score that is neither the sum over its path
\* nor the score of its first move
C30_Witness_NodeAtPlyThree ==
    /\ aiPhase = "action"
    /\ search.depth = 2
    /\ \E i \in 1..Len(search.nextBeam) :
          /\ search.nextBeam[i].score # search.nextBeam[i].pathScore
          /\ search.nextBeam[i].score # search.nextBeam[i].firstMove.score

\* What the search returns for the same state with maxDepth 1: the score of
\* the best root action
OnePlyBestScore(state, actions) ==
    CHOOSE score \in {m.score : m \in BestRootMoves(RootMoves(state, actions))} : TRUE

\* The running best at the end of ply 1 is the score the one-ply search
\* returns for the same state
RootBestIsOnePlyBest ==
    [][(aiPhase = "actions" /\ aiPhase' = "node") =>
          (search'.rootBestScore = OnePlyBestScore(aiIn, aiActions))]_vars

\* C21 as stated, for maxDepth: the score of the move a deeper search
\* returns is not below the score of the move the one-ply search returns for
\* the same state.
C21_DeeperSearchScoresNoLower ==
    (aiPhase = "done" /\ aiIn.maxDepth > 1 /\ aiOut[1].best # Null) =>
        aiOut[1].best[1].score >= search.rootBestScore

\* The running best score of a search never decreases from step to step
RunningBestNeverDecreases ==
    [][(aiPhase \in BeamPhases) =>
          (search'.globalBestScore >= search.globalBestScore)]_vars

\* The cells of the field that hold a block
OccupiedCells(field) ==
    Cardinality({c \in (1..FIELD_WIDTH) \X (1..FIELD_HEIGHT) : field[c[2]][c[1]] # 0})

SameButSoftDrops(a, b) ==
    /\ a.placement = b.placement
    /\ a.useHold = b.useHold
    /\ a.lastMoveWasRotate = b.lastMoveWasRotate
    /\ a.softDropSteps # b.softDropSteps

\* C29 as stated: with a weight other than 0 and fewer than 28 occupied
\* cells, the score of an action includes weight x softDropSteps x
\* (1 - occupied / 28), so two actions that differ only in their soft-drop
\* steps score differently.
C29_SoftDropStepsChangeTheScore ==
    (/\ aiPhase = "actions"
     /\ aiIn.openingSoftDropWeight # 0
     /\ OccupiedCells(aiIn.field) < OPENING_BLOCK_LIMIT) =>
        \A i, j \in 1..Len(aiActions) :
            SameButSoftDrops(aiActions[i], aiActions[j]) =>
                applyMoveAndEvaluate(aiIn, aiActions[i]).score
                    # applyMoveAndEvaluate(aiIn, aiActions[j]).score

(***************************************************************************)
(* Properties of the objects of the search.                                *)
(***************************************************************************)
\* The KpiState of node i and its windowEvents, read through the addresses
MemNodeKpi(i) == MemKpiState(mem.heap, mem.heap[mem.nodes[i]].kpi)

\* C24: expanding a node changes the field, the piece-queue state and the
\* KPI state of no node that exists, the state the search was given (the
\* first node) included
C24_NodesKeepTheirState ==
    [][\A i \in 1..Len(mem.nodes) :
          /\ mem'.nodes[i] = mem.nodes[i]
          /\ MemNodeState(mem'.heap, mem.nodes[i]) = MemNodeState(mem.heap, mem.nodes[i])]_vars

\* Two nodes share one KpiState object while a third, made by a clear that
\* scored, has an event pushed onto its windowEvents
C24_Witness_SharedKpiBesideAScoringClear ==
    \E i, j, k \in 1..Len(mem.nodes) :
        /\ i < j
        /\ mem.heap[mem.nodes[i]].kpi = mem.heap[mem.nodes[j]].kpi
        /\ Len(MemNodeKpi(k).windowEvents) > Len(MemNodeKpi(1).windowEvents)

====
